---- MODULE Spec2Model ----
(***************************************************************************)
(* Layered configuration bag of aws-smithy-runtime-api (config_bag.rs).    *)
(*                                                                         *)
(* A ConfigBag is a head Layer plus an optional FrozenConfigBag tail; a    *)
(* FrozenConfigBag is an Arc<ConfigBag>.  The heap of this model holds the *)
(* ConfigBag values the program has built, indexed by an identity that is  *)
(* never reused; a bag is either owned directly by the program ("mut"),    *)
(* lives inside an Arc ("frozen"), or has been dropped ("dead").  The      *)
(* program is any sequence of at most MaxCalls calls of the public API,    *)
(* a value going out of scope counting as a call of drop.                  *)
(***************************************************************************)
EXTENDS Integers, Sequences, FiniteSets, TLC

\* ------------------------------------------------------------------ bounds
MaxCalls == 5       \* calls the program makes in one run

\* Every bag is built by a call, so no run builds more than MaxCalls bags.
BagIds == 1..MaxCalls
NoBag  == 0         \* tail: None

\* ------------------------------------------------------------------ types
\* Types used with put / unset / get, with the values the program puts.
PointTypes == {"Prop1", "Prop2"}
PointValues(T) == IF T = "Prop1" THEN {1, 2} ELSE {1}

\* Types declared with storable!(T, mode: ...), used with store / load.
StorableTypes == {"Interceptor", "Region"}
StoreValues == {1, 2}
\* storable!(Interceptor, mode: append), storable!(Region, mode: replace)
Mode(T) == IF T = "Interceptor" THEN "append" ELSE "replace"

\* The key under which store::<T> keeps its sequence: the type Vec<T>.
VecOf(T) == IF T = "Interceptor" THEN "Vec<Interceptor>" ELSE "Vec<Region>"

Keys == PointTypes \cup {VecOf(T) : T \in StorableTypes}

\* Names the program gives to the layers it adds: the layer added when n
\* bags have been built is named LayerNames[n].
LayerNames == <<"a", "b", "c", "d", "e", "f", "g", "h">>

\* ------------------------------------------------------------------ values
\* enum Value<T> { Set(T), ExplicitlyUnset }
Set(v) == <<"Set", v>>
ExplicitlyUnset == <<"ExplicitlyUnset">>
IsSet(e) == e[1] = "Set"

\* Option<T>
None == <<>>
Some(v) == <<v>>

\* Option::unwrap on None panics; the thread unwinds out of the call.
Panic == <<"panic", "called Option::unwrap() on a None value">>

\* enum SourceInfo { Set { layer, value }, Unset { layer }, Inherit { layer } }
SourceSet(layer, v) == <<"Set", layer, v>>
SourceUnset(layer) == <<"Unset", layer>>
SourceInherit(layer) == <<"Inherit", layer>>

\* PropertyBag::new(): a map from type to value with no entry.
EmptyProps == [k \in {} |-> ExplicitlyUnset]

\* struct Layer { name, props } and struct ConfigBag { head, tail }
ConfigBag(name, props, tail) == [name |-> name, props |-> props, tail |-> tail]

\* ConfigBag::base()
Base == ConfigBag("base", EmptyProps, NoBag)

VARIABLES
    bags,       \* BagIds -> ConfigBag: the value of every bag
    st,         \* BagIds -> "none" | "mut" | "frozen" | "dead"
    rc,         \* BagIds -> strong count of the Arc that holds the bag
    handles,    \* BagIds -> FrozenConfigBag handles held by the program
    nbags,      \* bags built so far
    calls,      \* calls made so far
    stored,     \* BagIds -> StorableTypes -> every value store was called with
    cleared,    \* BagIds -> StorableTypes -> how many of them were reset
    last,       \* the call made by the last step and its outcome
    seen,       \* BagIds -> what the readers of the frozen bag were answered
    inflight,   \* the store call that has removed the sequence, if any
    interceptor,    \* the ResponseChecksumInterceptor of the request
    context,        \* the interceptor context of the request
    cfg,            \* the config bag of the request: its layers, oldest first
    hooks,          \* the hooks called on the request so far, with results
    checked,        \* the last call of a checksum helper, with its result
    alb,            \* the AlbHealthCheckService, its inner service, its futures
    upload          \* the Uploader and the upload call it is given

vars == <<bags, st, rc, handles, nbags, calls, stored, cleared, last, seen,
          inflight, interceptor, context, cfg, hooks, checked, alb, upload>>

\* The state of the bags of config_bag.rs, and the state of a request that
\* goes through the interceptor of http_response_checksum.rs.
BagVars == <<bags, st, rc, handles, nbags, calls, stored, cleared, last, seen,
             inflight>>
RequestVars == <<interceptor, context, cfg, hooks>>

\* The state of the other components: the checksum helpers of
\* http_response_checksum.rs, the service of alb_health_check.rs and the
\* Uploader of upload.rs.
ComponentVars == <<checked, alb, upload>>

\* ------------------------------------------------------------ PropertyBag
\* PropertyBag::insert: the entry of the value's type is set, replacing any
\* entry the type had.
PropsInsert(props, key, entry) ==
    [k \in DOMAIN props \cup {key} |-> IF k = key THEN entry ELSE props[k]]

\* PropertyBag::remove: the type's entry is taken out of the map.
PropsRemove(props, key) == [k \in DOMAIN props \ {key} |-> props[k]]

\* PropertyBag::get: Some(entry) or None.
PropsGet(props, key) == IF key \in DOMAIN props THEN Some(props[key]) ELSE None

\* ------------------------------------------------- ConfigBag: head mutators
\* Mutant of put: the head's map is replaced by one holding the new entry.
PutClears(bag, T, value) ==
    [bag EXCEPT !.props = PropsInsert(EmptyProps, T, Set(value))]

\* Mutant of put: an entry the head already has for the type is kept.
PutKeepsExisting(bag, T, value) ==
    IF T \in DOMAIN bag.props THEN bag
    ELSE [bag EXCEPT !.props = PropsInsert(@, T, Set(value))]

\* ConfigBag::put
Put(bag, T, value) ==
    [bag EXCEPT !.props = PropsInsert(@, T, Set(value))]

\* Mutant of unset: the entry is removed instead of marked.
UnsetRemoves(bag, T) ==
    [bag EXCEPT !.props = PropsRemove(@, T)]

\* ConfigBag::unset
Unset(bag, T) ==
    [bag EXCEPT !.props = PropsInsert(@, T, ExplicitlyUnset)]

\* ConfigBag::store
Store(bag, T, t) ==
    LET removed  == PropsGet(bag.props, VecOf(T))
        stripped == [bag EXCEPT !.props = PropsRemove(@, VecOf(T))]
    IN  IF removed # None /\ IsSet(removed[1])
        THEN Put(stripped, VecOf(T), Append(removed[1][2], t))
        ELSE Put(stripped, VecOf(T), <<t>>)

\* Mutant of store_or_unset: None is skipped, the head is left as it is.
StoreOrUnsetSkipsNone(bag, T, t) ==
    IF t # None THEN Store(bag, T, t[1]) ELSE bag

\* ConfigBag::store_or_unset; t is an Option<T>
StoreOrUnset(bag, T, t) ==
    IF t # None THEN Store(bag, T, t[1]) ELSE Unset(bag, VecOf(T))

\* ------------------------------------------------------- ConfigBag: lookups
\* Mutant of merge: mode replace keeps the value it already has.
MergeKeepsFirst(T, accum, item) ==
    IF Mode(T) = "replace"
    THEN IF accum = None THEN Some(item) ELSE accum
    ELSE Append(accum, item)

\* Storable::merge of storable!(T, mode: replace) and of mode: append
Merge(T, accum, item) ==
    IF Mode(T) = "replace" THEN Some(item) ELSE Append(accum, item)

\* for new_item in root { item = T::merge(item, new_item) }
RECURSIVE MergeAll(_, _, _)
MergeAll(T, accum, root) ==
    IF root = <<>> THEN accum
    ELSE MergeAll(T, Merge(T, accum, Head(root)), Tail(root))

\* Mutant of load: the head's values are folded in before the tail's.
RECURSIVE LoadHeadFirst(_, _, _)
LoadHeadFirst(H, b, T) ==
    LET root == PropsGet(H[b].props, VecOf(T))
        item == IF root # None /\ IsSet(root[1])
                THEN MergeAll(T, <<>>, root[1][2])
                ELSE <<>>
    IN  IF H[b].tail = NoBag THEN item
        ELSE MergeAll(T, item, LoadHeadFirst(H, H[b].tail, T))

\* ConfigBag::load on bag b of heap H
RECURSIVE Load(_, _, _)
Load(H, b, T) ==
    LET item == IF H[b].tail = NoBag THEN <<>> ELSE Load(H, H[b].tail, T)
        root == PropsGet(H[b].props, VecOf(T))
    IN  IF root # None /\ IsSet(root[1])
        THEN MergeAll(T, item, root[1][2])
        ELSE item

\* format!("{:?}", v)
DebugFmt(v) == ToString(v)

\* Mutant of sourced_get: the head's record is pushed before the tail is
\* searched.
RECURSIVE SourcedGetHeadFirst(_, _, _, _)
SourcedGetHeadFirst(H, b, T, source_trail) ==
    LET entry == PropsGet(H[b].props, T)
        own   == IF entry = None
                 THEN [decided |-> FALSE, item |-> None,
                       source |-> SourceInherit(H[b].name)]
                 ELSE IF IsSet(entry[1])
                 THEN [decided |-> TRUE, item |-> Some(entry[1][2]),
                       source |-> SourceSet(H[b].name, DebugFmt(entry[1][2]))]
                 ELSE [decided |-> TRUE, item |-> None,
                       source |-> SourceUnset(H[b].name)]
        pushed == Append(source_trail, own.source)
        inner == IF H[b].tail = NoBag
                 THEN [item |-> None, trail |-> pushed]
                 ELSE SourcedGetHeadFirst(H, H[b].tail, T, pushed)
    IN  [item |-> IF own.decided THEN own.item ELSE inner.item,
         trail |-> inner.trail]

\* Mutant of sourced_get: an item found in the tail is preferred to the
\* head's own entry.
RECURSIVE SourcedGetInnerFirst(_, _, _, _)
SourcedGetInnerFirst(H, b, T, source_trail) ==
    LET inner == IF H[b].tail = NoBag
                 THEN [item |-> None, trail |-> source_trail]
                 ELSE SourcedGetInnerFirst(H, H[b].tail, T, source_trail)
        entry == PropsGet(H[b].props, T)
        found == IF entry = None
                 THEN [item |-> inner.item, source |-> SourceInherit(H[b].name)]
                 ELSE IF IsSet(entry[1])
                 THEN [item |-> IF inner.item # None THEN inner.item
                                ELSE Some(entry[1][2]),
                       source |-> SourceSet(H[b].name, DebugFmt(entry[1][2]))]
                 ELSE [item |-> None, source |-> SourceUnset(H[b].name)]
    IN  [item |-> found.item, trail |-> Append(inner.trail, found.source)]

\* Mutant of sourced_get: a layer that has an entry answers without asking
\* its tail.
RECURSIVE SourcedGetStopsAtEntry(_, _, _, _)
SourcedGetStopsAtEntry(H, b, T, source_trail) ==
    LET entry == PropsGet(H[b].props, T)
        inner == IF H[b].tail = NoBag \/ entry # None
                 THEN [item |-> None, trail |-> source_trail]
                 ELSE SourcedGetStopsAtEntry(H, H[b].tail, T, source_trail)
        found == IF entry = None
                 THEN [item |-> inner.item, source |-> SourceInherit(H[b].name)]
                 ELSE IF IsSet(entry[1])
                 THEN [item |-> Some(entry[1][2]),
                       source |-> SourceSet(H[b].name, DebugFmt(entry[1][2]))]
                 ELSE [item |-> None, source |-> SourceUnset(H[b].name)]
    IN  [item |-> found.item, trail |-> Append(inner.trail, found.source)]

\* ConfigBag::sourced_get on bag b of heap H: the item and the trail after
\* the call
RECURSIVE SourcedGet(_, _, _, _)
SourcedGet(H, b, T, source_trail) ==
    LET inner == IF H[b].tail = NoBag
                 THEN [item |-> None, trail |-> source_trail]
                 ELSE SourcedGet(H, H[b].tail, T, source_trail)
        entry == PropsGet(H[b].props, T)
        found == IF entry = None
                 THEN [item |-> inner.item, source |-> SourceInherit(H[b].name)]
                 ELSE IF IsSet(entry[1])
                 THEN [item |-> Some(entry[1][2]),
                       source |-> SourceSet(H[b].name, DebugFmt(entry[1][2]))]
                 ELSE [item |-> None, source |-> SourceUnset(H[b].name)]
    IN  [item |-> found.item, trail |-> Append(inner.trail, found.source)]

\* Mutant of get: the result of sourced_get is unwrapped.
GetFaultsOnAbsence(H, b, T) ==
    IF SourcedGet(H, b, T, <<>>).item = None THEN Panic
    ELSE SourcedGet(H, b, T, <<>>).item

\* ConfigBag::get
Get(H, b, T) == SourcedGet(H, b, T, <<>>).item

\* ------------------------------------------------------ calls on the head
\* The calls a caller, or the closure given to with_fn, makes on a
\* &mut ConfigBag.
PutCmd(T, v)     == [op |-> "put", T |-> T, arg |-> Some(v)]
UnsetCmd(T)      == [op |-> "unset", T |-> T, arg |-> None]
StoreCmd(T, v)   == [op |-> "store", T |-> T, arg |-> Some(v)]
StoreOrUnsetCmd(T, t) == [op |-> "store_or_unset", T |-> T, arg |-> t]

\* The arguments the program passes to the calls it makes directly.
PutArgs == {<<T, v>> : T \in {"Prop1"}, v \in PointValues("Prop1")}
           \cup {<<T, v>> : T \in {"Prop2"}, v \in PointValues("Prop2")}
StoreArgs == StorableTypes \X StoreValues
StoreOrUnsetArgs == StorableTypes \X {None, Some(2)}

\* The effect of one call on the bag it is made on.
Run(bag, c) ==
    CASE c.op = "put"   -> Put(bag, c.T, c.arg[1])
      [] c.op = "unset" -> Unset(bag, c.T)
      [] c.op = "store" -> Store(bag, c.T, c.arg[1])
      [] OTHER          -> StoreOrUnset(bag, c.T, c.arg)

\* The closures handed to with_fn, by name.  layer_a and layer_c are the
\* closures of test::layered_property_bag; add_interceptor stores one value.
Closures == {"layer_a", "layer_c", "add_interceptor"}
Body(next) ==
    CASE next = "no_op"   -> <<>>
      [] next = "layer_a" -> <<PutCmd("Prop1", 1)>>
      [] next = "layer_c" -> <<PutCmd("Prop2", 1), UnsetCmd("Prop1")>>
      [] OTHER            -> <<StoreCmd("Interceptor", 1)>>

\* next(&mut bag), the closure making the calls cs
RECURSIVE RunAll(_, _)
RunAll(bag, cs) ==
    IF cs = <<>> THEN bag ELSE RunAll(Run(bag, Head(cs)), Tail(cs))

\* Values a store-like call appends (history kept for the claims).
Appends(c) == c.op \in {"store", "store_or_unset"} /\ c.arg # None
Resets(c)  == c.op = "store_or_unset" /\ c.arg = None

NoHistory == [T \in StorableTypes |-> <<>>]
NoCleared == [T \in StorableTypes |-> 0]

StoredAfter(h, c) ==
    IF Appends(c) THEN [h EXCEPT ![c.T] = Append(@, c.arg[1])] ELSE h
ClearedAfter(h, k, c) ==
    IF Resets(c) THEN [k EXCEPT ![c.T] = Len(h[c.T])] ELSE k

RECURSIVE StoredAfterAll(_, _)
StoredAfterAll(h, cs) ==
    IF cs = <<>> THEN h
    ELSE StoredAfterAll(StoredAfter(h, Head(cs)), Tail(cs))
RECURSIVE ClearedAfterAll(_, _, _)
ClearedAfterAll(h, k, cs) ==
    IF cs = <<>> THEN k
    ELSE ClearedAfterAll(StoredAfter(h, Head(cs)),
                         ClearedAfter(h, k, Head(cs)), Tail(cs))

Event(op, b, key, ok) == [op |-> op, bag |-> b, key |-> key, ok |-> ok]

\* What readers ask a frozen bag: get::<Prop1>() and load::<Interceptor>().
\* Nothing has been answered yet.
Questions == {"Prop1", "Interceptor"}
NoneSeen == [q \in Questions |-> <<>>]

\* --------------------------------------------------------------- Arc<T>
\* Dropping one owner of the Arc of bag f: the bags whose last owner goes
\* (each drops its own tail in turn), and the Arc that only loses a count.
RECURSIVE Freed(_)
Freed(f) ==
    IF f = NoBag \/ rc[f] > 1 THEN {} ELSE {f} \cup Freed(bags[f].tail)

RECURSIVE Survivor(_)
Survivor(f) ==
    IF f = NoBag THEN NoBag
    ELSE IF rc[f] > 1 THEN f ELSE Survivor(bags[f].tail)

\* The heap after the bags of set D are deallocated and the count of Arc s
\* (if any) is lowered by one.
Dealloc(D, s) ==
    /\ bags' = [i \in BagIds |-> IF i \in D THEN Base ELSE bags[i]]
    /\ st' = [i \in BagIds |-> IF i \in D THEN "dead" ELSE st[i]]
    /\ rc' = [i \in BagIds |-> IF i \in D THEN 0
                               ELSE IF i = s THEN rc[i] - 1 ELSE rc[i]]
    /\ stored' = [i \in BagIds |-> IF i \in D THEN NoHistory ELSE stored[i]]
    /\ cleared' = [i \in BagIds |-> IF i \in D THEN NoCleared ELSE cleared[i]]

\* ------------------------------------------------------------------- Init
NoBags ==
    /\ bags = [i \in BagIds |-> Base]
    /\ st = [i \in BagIds |-> "none"]
    /\ rc = [i \in BagIds |-> 0]
    /\ handles = [i \in BagIds |-> 0]
    /\ nbags = 0
    /\ calls = 0
    /\ stored = [i \in BagIds |-> NoHistory]
    /\ cleared = [i \in BagIds |-> NoCleared]
    /\ last = Event("init", NoBag, "-", TRUE)
    /\ seen = [i \in BagIds |-> NoneSeen]
    /\ inflight = None

\* No request is being made.
NoRequest ==
    /\ interceptor = None
    /\ context = None
    /\ cfg = <<>>
    /\ hooks = <<>>

\* No other component has been built or called.
NoComponents ==
    /\ checked = None
    /\ alb = None
    /\ upload = None

Init == NoBags /\ NoRequest /\ NoComponents

\* ---------------------------------------------------------------- actions
\* ConfigBag::base()
BaseCall ==
    /\ nbags' = nbags + 1
    /\ bags' = [bags EXCEPT ![nbags + 1] = Base]
    /\ st' = [st EXCEPT ![nbags + 1] = "mut"]
    /\ last' = Event("base", nbags + 1, "-", TRUE)
    /\ UNCHANGED <<rc, handles, stored, cleared>>

\* One of put / unset / store / store_or_unset on a bag the program owns.
Mutate(b, c) ==
    /\ st[b] = "mut"
    /\ bags' = [bags EXCEPT ![b] = Run(@, c)]
    /\ stored' = [stored EXCEPT ![b] = StoredAfter(@, c)]
    /\ cleared' = [cleared EXCEPT ![b] = ClearedAfter(stored[b], @, c)]
    /\ last' = Event(c.op, b, c.T, TRUE) @@ [arg |-> c.arg]
    /\ UNCHANGED <<st, rc, handles, nbags>>

PutCall(b, T, v)   == Mutate(b, PutCmd(T, v))
UnsetCall(b, T)    == Mutate(b, UnsetCmd(T))
StoreCall(b, T, v) == Mutate(b, StoreCmd(T, v))
StoreOrUnsetCall(b, T, t) == Mutate(b, StoreOrUnsetCmd(T, t))

\* ConfigBag::freeze: FrozenConfigBag(Arc::new(bag))
FreezeCall(b) ==
    /\ st[b] = "mut"
    /\ st' = [st EXCEPT ![b] = "frozen"]
    /\ rc' = [rc EXCEPT ![b] = 1]
    /\ handles' = [handles EXCEPT ![b] = 1]
    /\ last' = Event("freeze", b, "-", TRUE)
    /\ UNCHANGED <<bags, nbags, stored, cleared>>

\* Mutant of clone: the handle is copied and the strong count is not raised.
CloneUncounted(f) ==
    /\ handles[f] > 0
    /\ handles' = [handles EXCEPT ![f] = @ + 1]
    /\ last' = Event("clone", f, "-", TRUE)
    /\ UNCHANGED <<bags, st, rc, nbags, stored, cleared>>

\* FrozenConfigBag::clone (derived): one more owner of the same Arc
CloneCall(f) ==
    /\ handles[f] > 0
    /\ handles' = [handles EXCEPT ![f] = @ + 1]
    /\ rc' = [rc EXCEPT ![f] = @ + 1]
    /\ last' = Event("clone", f, "-", TRUE)
    /\ UNCHANGED <<bags, st, nbags, stored, cleared>>

\* A FrozenConfigBag the program holds goes out of scope.
DropFrozen(f) ==
    /\ handles[f] > 0
    /\ handles' = [handles EXCEPT ![f] = @ - 1]
    /\ Dealloc(Freed(f), Survivor(f))
    /\ last' = Event("drop", f, "-", TRUE)
    /\ UNCHANGED <<nbags>>

\* A ConfigBag the program owns goes out of scope: its tail is dropped.
DropBag(b) ==
    /\ st[b] = "mut"
    /\ Dealloc({b} \cup Freed(bags[b].tail), Survivor(bags[b].tail))
    /\ last' = Event("drop", b, "-", TRUE)
    /\ UNCHANGED <<handles, nbags>>

\* Mutants of try_modify: the count is compared with 2; the bags whose tail
\* is the Arc are not counted; the result is always None; always Some.
TryModifyOffByOne(f) == IF rc[f] <= 2 THEN Some(f) ELSE None
TryModifyIgnoresTails(f) == IF handles[f] = 1 THEN Some(f) ELSE None
TryModifyNever(f) == None
TryModifyUnchecked(f) == Some(f)

\* FrozenConfigBag::try_modify: Arc::try_unwrap(self.0).ok(), which gives
\* the bag back when the strong count is 1 and None otherwise.
TryModify(f) == IF rc[f] = 1 THEN Some(f) ELSE None

\* Mutant of try_modify: a handle that cannot be unwrapped stays with the
\* caller.
TryModifyCallKeepsHandle(f) ==
    /\ handles[f] > 0
    /\ IF TryModify(f) # None
       THEN /\ handles' = [handles EXCEPT ![f] = @ - 1]
            /\ st' = [st EXCEPT ![f] = "mut"]
            /\ rc' = [rc EXCEPT ![f] = 0]
            /\ UNCHANGED <<bags, stored, cleared>>
       ELSE UNCHANGED <<handles, bags, st, rc, stored, cleared>>
    /\ last' = Event("try_modify", f, "-", TryModify(f) # None)
    /\ UNCHANGED <<nbags>>

\* try_modify takes the handle by value: on success the Arc is unwrapped, on
\* failure the Arc returned in Err is dropped by ok().
TryModifyCall(f) ==
    /\ handles[f] > 0
    /\ handles' = [handles EXCEPT ![f] = @ - 1]
    /\ IF TryModify(f) # None
       THEN /\ st' = [st EXCEPT ![f] = "mut"]
            /\ rc' = [rc EXCEPT ![f] = 0]
            /\ UNCHANGED <<bags, stored, cleared>>
       ELSE Dealloc(Freed(f), Survivor(f))
    /\ last' = Event("try_modify", f, "-", TryModify(f) # None)
    /\ UNCHANGED <<nbags>>

\* FrozenConfigBag::with_fn: the bag it returns
WithFn(f, name, next) == RunAll(ConfigBag(name, EmptyProps, f), Body(next))

\* FrozenConfigBag::add_layer: with_fn(name, no_op)
AddLayer(f, name) == WithFn(f, name, "no_op")

\* FrozenConfigBag::add_bag_layer: the bag it returns (name is not used)
AddBagLayer(f, name, bag) == [bag EXCEPT !.tail = f]

\* Mutant of the derivations: the tail points at the Arc of f without
\* being counted as an owner of it.
DeriveUncounted(op, f, n, bag, next) ==
    /\ bags' = [bags EXCEPT ![n] = bag]
    /\ st' = [st EXCEPT ![n] = "mut"]
    /\ stored' = [stored EXCEPT ![n] = StoredAfterAll(@, Body(next))]
    /\ cleared' = [cleared EXCEPT ![n] = ClearedAfterAll(stored[n], @, Body(next))]
    /\ last' = Event(op, n, next, TRUE)
    /\ UNCHANGED rc

\* A new bag n whose value is `bag` and whose tail clones the Arc of f.
Derive(op, f, n, bag, next) ==
    /\ bags' = [bags EXCEPT ![n] = bag]
    /\ st' = [st EXCEPT ![n] = "mut"]
    /\ rc' = [rc EXCEPT ![f] = @ + 1]
    /\ stored' = [stored EXCEPT ![n] = StoredAfterAll(@, Body(next))]
    /\ cleared' = [cleared EXCEPT ![n] = ClearedAfterAll(stored[n], @, Body(next))]
    /\ last' = Event(op, n, next, TRUE)

WithFnCall(f, name, next) ==
    /\ handles[f] > 0
    /\ nbags' = nbags + 1
    /\ Derive("with_fn", f, nbags + 1, WithFn(f, name, next), next)
    /\ UNCHANGED handles

AddLayerCall(f, name) ==
    /\ handles[f] > 0
    /\ nbags' = nbags + 1
    /\ Derive("add_layer", f, nbags + 1, AddLayer(f, name), "no_op")
    /\ UNCHANGED handles

\* Mutant of add_bag_layer: the tail is set without the assertion.
AddBagLayerUnasserted(f, name, b) ==
    /\ handles[f] > 0
    /\ st[b] = "mut"
    /\ Derive("add_bag_layer", f, b, AddBagLayer(f, name, bags[b]), "no_op")
    /\ UNCHANGED <<handles, nbags>>

\* add_bag_layer takes the bag by value; assert!(bag.tail.is_none()) panics
\* otherwise, and the bag is dropped by the unwinding.
AddBagLayerCall(f, name, b) ==
    /\ handles[f] > 0
    /\ st[b] = "mut"
    /\ IF bags[b].tail = NoBag
       THEN /\ Derive("add_bag_layer", f, b, AddBagLayer(f, name, bags[b]), "no_op")
            /\ UNCHANGED <<handles, nbags>>
       ELSE /\ Dealloc({b} \cup Freed(bags[b].tail), Survivor(bags[b].tail))
            /\ last' = Event("add_bag_layer", b, "-", FALSE)
            /\ UNCHANGED <<handles, nbags>>

\* ConfigBag::with_fn: self.freeze().with_fn(name, next); the frozen handle is
\* a temporary, so the new bag's tail is the only owner of the Arc.
BagWithFnCall(b, name, next) ==
    /\ st[b] = "mut"
    /\ nbags' = nbags + 1
    /\ bags' = [bags EXCEPT ![nbags + 1] = WithFn(b, name, next)]
    /\ st' = [st EXCEPT ![b] = "frozen", ![nbags + 1] = "mut"]
    /\ rc' = [rc EXCEPT ![b] = 1]
    /\ stored' = [stored EXCEPT ![nbags + 1] = StoredAfterAll(@, Body(next))]
    /\ cleared' = [cleared EXCEPT ![nbags + 1] =
                     ClearedAfterAll(stored[nbags + 1], @, Body(next))]
    /\ last' = Event("with_fn", nbags + 1, next, TRUE)
    /\ UNCHANGED handles

\* ConfigBag::add_layer: self.freeze().add_layer(name)
BagAddLayerCall(b, name) ==
    /\ st[b] = "mut"
    /\ nbags' = nbags + 1
    /\ bags' = [bags EXCEPT ![nbags + 1] = AddLayer(b, name)]
    /\ st' = [st EXCEPT ![b] = "frozen", ![nbags + 1] = "mut"]
    /\ rc' = [rc EXCEPT ![b] = 1]
    /\ last' = Event("add_layer", nbags + 1, "no_op", TRUE)
    /\ UNCHANGED <<handles, stored, cleared>>

\* The program makes one more call; no reader thread takes part in it.
Called ==
    /\ calls < MaxCalls
    /\ calls' = calls + 1
    /\ UNCHANGED <<seen, inflight>>
    /\ UNCHANGED RequestVars
    /\ UNCHANGED ComponentVars

Next ==
    \/ Called /\ BaseCall
    \/ Called /\ \E b \in BagIds, a \in PutArgs : PutCall(b, a[1], a[2])
    \/ Called /\ \E b \in BagIds, T \in PointTypes : UnsetCall(b, T)
    \/ Called /\ \E b \in BagIds, a \in StoreArgs : StoreCall(b, a[1], a[2])
    \/ Called /\ \E b \in BagIds, a \in StoreOrUnsetArgs :
                    StoreOrUnsetCall(b, a[1], a[2])
    \/ Called /\ \E b \in BagIds : FreezeCall(b)
    \/ Called /\ \E f \in BagIds : CloneCall(f)
    \/ Called /\ \E f \in BagIds : DropFrozen(f)
    \/ Called /\ \E b \in BagIds : DropBag(b)
    \/ Called /\ \E f \in BagIds : TryModifyCall(f)
    \/ Called /\ \E f \in BagIds, next \in Closures :
                    WithFnCall(f, LayerNames[nbags], next)
    \/ Called /\ \E f \in BagIds : AddLayerCall(f, LayerNames[nbags])
    \/ Called /\ \E f \in BagIds, b \in BagIds :
                    AddBagLayerCall(f, LayerNames[nbags], b)
    \/ Called /\ \E b \in BagIds, next \in Closures :
                    BagWithFnCall(b, LayerNames[nbags], next)
    \/ Called /\ \E b \in BagIds : BagAddLayerCall(b, LayerNames[nbags])

Spec == Init /\ [][Next]_vars

\* The same calls, for what get, load and sourced_get answer on the bags the
\* calls build: the lookups take &self and change nothing, so they are
\* operators applied to every bag of every state.
LookupSpec == Init /\ [][Next]_vars

\* ------------------------------------------------- readers and writers
\* FrozenConfigBag is an Arc<ConfigBag>, so its clones can be held by any
\* number of threads; a thread holding one reads through Deref.  The steps
\* of the threads interleave: a reader's get or load is one step, and so is
\* every call of a thread that derives bags from the frozen bag and writes
\* to them.

\* The answer a reader gets from bag f of heap H.
Asked(H, f, q) == IF q \in PointTypes THEN Get(H, f, q) ELSE Load(H, f, q)

\* A thread that holds a clone of f calls get::<q>() or load::<q>() on it.
ReadCall(f, q) ==
    /\ handles[f] > 0
    /\ seen' = [seen EXCEPT ![f][q] = Append(@, Asked(bags, f, q))]
    /\ last' = Event(IF q \in PointTypes THEN "get" ELSE "load", f, q, TRUE)
    /\ UNCHANGED <<bags, st, rc, handles, nbags, stored, cleared>>

\* The answers of a frozen bag are forgotten with its last clone.
Forget == seen' = [i \in BagIds |-> IF handles'[i] = 0 THEN NoneSeen ELSE seen[i]]

\* The calls that built the bag the threads share, before it was frozen.
Prepared == {<<>>, <<PutCmd("Prop1", 1)>>,
             <<StoreCmd("Interceptor", 1), PutCmd("Prop1", 2)>>}

\* A bag has been built and frozen, and one or two threads hold a clone.
SharedInit ==
    \E cs \in Prepared, n \in {1, 2} :
        /\ bags = [i \in BagIds |-> IF i = 1 THEN RunAll(Base, cs) ELSE Base]
        /\ st = [i \in BagIds |-> IF i = 1 THEN "frozen" ELSE "none"]
        /\ rc = [i \in BagIds |-> IF i = 1 THEN n ELSE 0]
        /\ handles = [i \in BagIds |-> IF i = 1 THEN n ELSE 0]
        /\ nbags = 1
        /\ calls = 0
        /\ stored = [i \in BagIds |->
                       IF i = 1 THEN StoredAfterAll(NoHistory, cs) ELSE NoHistory]
        /\ cleared = [i \in BagIds |-> NoCleared]
        /\ last = Event("freeze", 1, "-", TRUE)
        /\ seen = [i \in BagIds |-> NoneSeen]
        /\ inflight = None
        /\ NoRequest
        /\ NoComponents

\* store is not one step: it removes the head's sequence, pushes the value
\* and puts the sequence back.  StoreBegin is the call up to the return of
\* remove, StoreEnd is the rest of it.
StoreBegin(b, T, t) ==
    /\ st[b] = "mut"
    /\ inflight = None
    /\ inflight' = Some([bag |-> b, T |-> T, t |-> t, before |-> bags[b],
                         removed |-> PropsGet(bags[b].props, VecOf(T))])
    /\ bags' = [bags EXCEPT ![b].props = PropsRemove(@, VecOf(T))]
    /\ last' = Event("remove", b, T, TRUE)
    /\ UNCHANGED <<st, rc, handles, nbags, stored, cleared>>

StoreEnd ==
    /\ inflight # None
    /\ LET c == inflight[1]
       IN  /\ bags' = [bags EXCEPT ![c.bag] =
                         IF c.removed # None /\ IsSet(c.removed[1])
                         THEN Put(@, VecOf(c.T), Append(c.removed[1][2], c.t))
                         ELSE Put(@, VecOf(c.T), <<c.t>>)]
           /\ stored' = [stored EXCEPT ![c.bag] = StoredAfter(@, StoreCmd(c.T, c.t))]
           /\ last' = Event("store", c.bag, c.T, TRUE)
    /\ inflight' = None
    /\ UNCHANGED <<st, rc, handles, nbags, calls, cleared>>

\* Mutant of the borrow: the bag is not borrowed during the call.
BorrowedNone == {}

\* The bag that a call in progress has borrowed with &mut self: until the
\* call returns, its owner can make no other call on it.
Borrowed == IF inflight = None THEN {} ELSE {inflight[1].bag}

\* One more step of one of the threads.
Stepped ==
    /\ calls < MaxCalls
    /\ calls' = calls + 1
    /\ UNCHANGED RequestVars
    /\ UNCHANGED ComponentVars

SharedNext ==
    \/ Stepped /\ UNCHANGED inflight
               /\ \E f \in BagIds, q \in Questions : ReadCall(f, q)
    \/ Stepped /\ UNCHANGED inflight
               /\ (\E f \in BagIds : CloneCall(f)) /\ Forget
    \/ Stepped /\ UNCHANGED inflight
               /\ (\E f \in BagIds : DropFrozen(f)) /\ Forget
    \/ Stepped /\ UNCHANGED inflight
               /\ (\E f \in BagIds : TryModifyCall(f)) /\ Forget
    \/ Stepped /\ UNCHANGED inflight /\ nbags < MaxCalls
               /\ (\E f \in BagIds, next \in Closures :
                      WithFnCall(f, LayerNames[nbags], next))
               /\ Forget
    \/ Stepped /\ UNCHANGED inflight
               /\ (\E b \in BagIds \ Borrowed : PutCall(b, "Prop1", 2)) /\ Forget
    \/ Stepped /\ UNCHANGED inflight
               /\ (\E b \in BagIds \ Borrowed : FreezeCall(b)) /\ Forget
    \/ Stepped /\ (\E b \in BagIds : StoreBegin(b, "Interceptor", 2)) /\ Forget
    \/ StoreEnd /\ Forget /\ UNCHANGED RequestVars /\ UNCHANGED ComponentVars

SharedSpec == SharedInit /\ [][SharedNext]_vars

\* ---------------------------------------------- structured configuration
\* test::persist_trait: struct MyConfig { a: bool, b: String }, persisted as
\* the two point types A(bool) and B(String) in a layer named "my_config".
ConfigTypes == {"A", "B"}
MyConfigs == [a : BOOLEAN, b : {"", "hello!"}]

\* <MyConfig as Persist>::layer_name
LayerName(conf) == "my_config"

\* Mutant of persist: the second field is not written.
PersistFirstField(conf, layer) == Put(layer, "A", conf.a)

\* <MyConfig as Persist>::persist
Persist(conf, layer) == Put(Put(layer, "A", conf.a), "B", conf.b)

\* FrozenConfigBag::with: with_fn(layer.layer_name(), |bag| layer.persist(bag))
With(f, layer) == Persist(layer, ConfigBag(LayerName(layer), EmptyProps, f))

\* Mutant of load: a field that is absent is given its default value.
LoadMyConfigOrDefault(H, b) ==
    Some([a |-> IF Get(H, b, "A") = None THEN FALSE ELSE Get(H, b, "A")[1],
          b |-> IF Get(H, b, "B") = None THEN "" ELSE Get(H, b, "B")[1]])

\* <MyConfig as Load>::load: Some(value), or the panic of unwrap
LoadMyConfig(H, b) ==
    IF Get(H, b, "A") = None THEN Panic
    ELSE IF Get(H, b, "B") = None THEN Panic
    ELSE Some([a |-> Get(H, b, "A")[1], b |-> Get(H, b, "B")[1]])

\* frozen.with(conf): a new bag whose head holds conf and whose tail is f
WithCall(f, conf) ==
    /\ handles[f] > 0
    /\ nbags' = nbags + 1
    /\ bags' = [bags EXCEPT ![nbags + 1] = With(f, conf)]
    /\ st' = [st EXCEPT ![nbags + 1] = "mut"]
    /\ rc' = [rc EXCEPT ![f] = @ + 1]
    /\ last' = Event("with", nbags + 1, conf, TRUE)
    /\ UNCHANGED <<handles, stored, cleared>>

\* ConfigBag::with: self.freeze().with(layer)
BagWithCall(b, conf) ==
    /\ st[b] = "mut"
    /\ nbags' = nbags + 1
    /\ bags' = [bags EXCEPT ![nbags + 1] = With(b, conf)]
    /\ st' = [st EXCEPT ![b] = "frozen", ![nbags + 1] = "mut"]
    /\ rc' = [rc EXCEPT ![b] = 1]
    /\ last' = Event("with", nbags + 1, conf, TRUE)
    /\ UNCHANGED <<handles, stored, cleared>>

\* MyConfig::load(&bag) on a bag the program owns or holds frozen
LoadConfigCall(b) ==
    /\ st[b] = "mut" \/ handles[b] > 0
    /\ last' = Event("load_config", b, "-", LoadMyConfig(bags, b))
    /\ UNCHANGED <<bags, st, rc, handles, nbags, stored, cleared>>

BridgeNext ==
    \/ Called /\ BaseCall
    \/ Called /\ \E b \in BagIds, conf \in MyConfigs : BagWithCall(b, conf)
    \/ Called /\ \E f \in BagIds, conf \in MyConfigs : WithCall(f, conf)
    \/ Called /\ \E b \in BagIds : FreezeCall(b)
    \/ Called /\ \E b \in BagIds, T \in ConfigTypes : UnsetCall(b, T)
    \/ Called /\ \E b \in BagIds : BagAddLayerCall(b, LayerNames[nbags])
    \/ Called /\ \E b \in BagIds : LoadConfigCall(b)

BridgeSpec == Init /\ [][BridgeNext]_vars

\* -------------------------------------------------------------- ownership
\* The calls that make, share and give up owners of an Arc: freeze, clone,
\* drop, try_modify and every way of deriving a bag from a frozen one
\* (add_layer, with_fn, with, add_bag_layer), with one put to tell the
\* heads apart.
OwnerConfigs == {[a |-> TRUE, b |-> "hello!"]}

OwnerNext ==
    \/ Called /\ BaseCall
    \/ Called /\ \E b \in BagIds : PutCall(b, "Prop1", 1)
    \/ Called /\ \E b \in BagIds : FreezeCall(b)
    \/ Called /\ \E f \in BagIds : CloneCall(f)
    \/ Called /\ \E f \in BagIds : DropFrozen(f)
    \/ Called /\ \E b \in BagIds : DropBag(b)
    \/ Called /\ \E f \in BagIds : TryModifyCall(f)
    \/ Called /\ \E f \in BagIds : WithFnCall(f, LayerNames[nbags], "layer_a")
    \/ Called /\ \E f \in BagIds : AddLayerCall(f, LayerNames[nbags])
    \/ Called /\ \E f \in BagIds, b \in BagIds :
                    AddBagLayerCall(f, LayerNames[nbags], b)
    \/ Called /\ \E f \in BagIds, conf \in OwnerConfigs : WithCall(f, conf)
    \/ Called /\ \E b \in BagIds, conf \in OwnerConfigs : BagWithCall(b, conf)
    \/ Called /\ \E b \in BagIds : BagAddLayerCall(b, LayerNames[nbags])

OwnerSpec == Init /\ [][OwnerNext]_vars

\* ------------------------------------------------------- checksum helpers
\* http_response_checksum.rs, the two helpers of the interceptor.  A header
\* value is the sequence of its characters; the characters are the ones the
\* helpers tell apart: a letter and a digit of the base64 alphabet, the
\* dash, and the padding character (which is neither digit nor dash, as is
\* every other character of a header value).
Chars == {"A", "1", "-", "="}
MaxLen == 4         \* characters of a header value
Strings == UNION {[1..n -> Chars] : n \in 0..MaxLen}

\* char::is_ascii_digit
IsAsciiDigit(ch) == ch = "1"

\* The loop of is_part_level_checksum over checksum.chars().rev(), about
\* to look at character i (0: no character is left).
RECURSIVE PartLevelLoop(_, _, _, _)
PartLevelLoop(checksum, i, found_number, found_dash) ==
    IF i = 0 THEN found_number /\ found_dash
    ELSE IF IsAsciiDigit(checksum[i])
         THEN PartLevelLoop(checksum, i - 1, TRUE, found_dash)
    ELSE IF checksum[i] = "-"
         THEN IF found_dash
              THEN FALSE
              ELSE PartLevelLoop(checksum, i - 1, found_number, TRUE)
    ELSE found_number /\ found_dash

\* fn is_part_level_checksum(checksum: &str) -> bool
IsPartLevelChecksum(checksum) ==
    PartLevelLoop(checksum, Len(checksum), FALSE, FALSE)

\* aws_smithy_types::base64::decode: the bytes of a text of the standard
\* alphabet, padded with = to a multiple of four characters, or an error.
Base64Alphabet == {"A", "1"}
Padding(s) == Cardinality({k \in 1..Len(s) : \A j \in k..Len(s) : s[j] = "="})
Base64Decode(s) ==
    IF /\ Len(s) % 4 = 0
       /\ Padding(s) <= 2
       /\ \A i \in 1..(Len(s) - Padding(s)) : s[i] \in Base64Alphabet
    THEN <<"Ok", <<"bytes", SubSeq(s, 1, Len(s) - Padding(s))>>>>
    ELSE <<"Err">>

\* aws_smithy_checksums::http::CHECKSUM_ALGORITHMS_IN_PRIORITY_ORDER, from
\* the fastest to compute to the slowest, and the header of each algorithm
\* (ChecksumAlgorithm::into_impl().header_name()).
CHECKSUM_ALGORITHMS_IN_PRIORITY_ORDER == <<"crc32c", "crc32", "sha1", "sha256">>
HeaderName(algo) ==
    CASE algo = "crc32c" -> "x-amz-checksum-crc32c"
      [] algo = "crc32"  -> "x-amz-checksum-crc32"
      [] algo = "sha1"   -> "x-amz-checksum-sha1"
      [] algo = "sha256" -> "x-amz-checksum-sha256"

\* The names an operation's model may list as response_algorithms, and
\* str::eq_ignore_ascii_case on them.
AlgorithmNames == {"CRC32C", "crc32", "Sha1", "SHA256", "md5"}
AsciiLower(s) ==
    CASE s = "CRC32C" -> "crc32c"
      [] s = "Sha1"   -> "sha1"
      [] s = "SHA256" -> "sha256"
      [] OTHER        -> s
EqIgnoreAsciiCase(a, b) == AsciiLower(a) = AsciiLower(b)

\* checksum_algorithms_to_check (lines 162-176): the algorithms of the
\* priority order that response_algorithms lists, in the priority order.
ChecksumAlgorithmsToCheck(response_algorithms) ==
    SelectSeq(CHECKSUM_ALGORITHMS_IN_PRIORITY_ORDER,
              LAMBDA algo :
                  \E i \in 1..Len(response_algorithms) :
                      EqIgnoreAsciiCase(algo, response_algorithms[i]))

\* Mutant of the loop of check_headers_for_precalculated_checksum: a header
\* that cannot be used is skipped and the next algorithm is tried.
RECURSIVE CheckHeadersLoopFallsThrough(_, _)
CheckHeadersLoopFallsThrough(headers, to_check) ==
    IF to_check = <<>> THEN None
    ELSE LET checksum_algorithm == Head(to_check)
             name == HeaderName(checksum_algorithm)
         IN  IF /\ name \in DOMAIN headers
                /\ ~IsPartLevelChecksum(headers[name])
                /\ Base64Decode(headers[name])[1] = "Ok"
             THEN Some(<<checksum_algorithm, Base64Decode(headers[name])[2]>>)
             ELSE CheckHeadersLoopFallsThrough(headers, Tail(to_check))

\* The loop of check_headers_for_precalculated_checksum (lines 178-209)
\* over the algorithms left to check.
RECURSIVE CheckHeadersLoop(_, _)
CheckHeadersLoop(headers, to_check) ==
    IF to_check = <<>> THEN None
    ELSE LET checksum_algorithm == Head(to_check)
             name == HeaderName(checksum_algorithm)
         IN  IF name \in DOMAIN headers
             THEN IF IsPartLevelChecksum(headers[name])
                  THEN None
                  ELSE IF Base64Decode(headers[name])[1] = "Err"
                       THEN None
                       ELSE Some(<<checksum_algorithm,
                                   Base64Decode(headers[name])[2]>>)
             ELSE CheckHeadersLoop(headers, Tail(to_check))

\* fn check_headers_for_precalculated_checksum(headers, response_algorithms)
CheckHeadersForPrecalculatedChecksum(headers, response_algorithms) ==
    CheckHeadersLoop(headers, ChecksumAlgorithmsToCheck(response_algorithms))

\* The inputs of the helpers: the headers of a response, each checksum
\* header absent or holding one of a few values (two that decode, a
\* part-level checksum, digits before a last dash, a text that is not
\* base64), and the lists of at most MaxAlgorithms names.
HeaderValues ==
    { <<"A", "1", "A", "1">>, <<"A", "1", "=", "=">>, <<"A", "1", "-", "1">>,
      <<"A", "1", "-">>, <<"A", "1", "=">> }
HeaderNames == {HeaderName(CHECKSUM_ALGORITHMS_IN_PRIORITY_ORDER[i]) :
                   i \in 1..Len(CHECKSUM_ALGORITHMS_IN_PRIORITY_ORDER)}
HeaderMaps == UNION {[D -> HeaderValues] : D \in SUBSET HeaderNames}
MaxAlgorithms == 2  \* names in response_algorithms
AlgorithmLists == UNION {[1..n -> AlgorithmNames] : n \in 0..MaxAlgorithms}

\* One call of a helper, and what it returned.
CallOf(fn, arg, result) == [fn |-> fn, arg |-> arg, result |-> result]

CheckHeadersCall(headers, response_algorithms) ==
    checked' = CallOf("check_headers_for_precalculated_checksum",
                      <<headers, response_algorithms>>,
                      CheckHeadersForPrecalculatedChecksum(headers,
                                                           response_algorithms))

IsPartLevelChecksumCall(checksum) ==
    checked' = CallOf("is_part_level_checksum", <<checksum>>,
                      IsPartLevelChecksum(checksum))

\* The program calls one helper, once.
FirstCall ==
    /\ checked = None
    /\ UNCHANGED BagVars
    /\ UNCHANGED RequestVars
    /\ UNCHANGED <<alb, upload>>

ChecksumNext ==
    \/ FirstCall /\ \E h \in HeaderMaps, ra \in AlgorithmLists :
                        CheckHeadersCall(h, ra)
    \/ FirstCall /\ \E s \in Strings : IsPartLevelChecksumCall(s)

ChecksumSpec == Init /\ [][ChecksumNext]_vars

\* ------------------------------------------------------- ALB health check
\* alb_health_check.rs.  An AlbHealthCheckService wraps an inner service;
\* its caller calls poll_ready and call on it and polls the futures call
\* returns.  The inner service and the handler are the caller's: the inner
\* service answers poll_ready with Pending, Ready(Ok) or Ready(Err), and its
\* future and the handler's are pending until they complete.  Every value
\* of the inner service (the one the service is built with and every clone)
\* has an identity; alb.log is the history of what was called on what.
Uris == {"/ping", "/ping?probe=1", "/orders"}
HealthCheckUri == "/ping"

\* What the futures of the handler and of the inner service complete with.
HandlerResponse(req) == [status |-> 200, from |-> "handler", req |-> req.id]
InnerResults(req) ==
    { <<"Ok", [status |-> 200, from |-> "inner", req |-> req.id]>>,
      <<"Err", "inner error">> }
PollReadyResults == {"Pending", "Ready(Ok)", "Ready(Err)"}

\* One entry of the history: what was called, on which value of the inner
\* service (0: none), for which request (0: none), and what it returned.
AlbEvent(op, svc, req, result) ==
    [op |-> op, svc |-> svc, req |-> req, result |-> result]

\* AlbHealthCheckLayer::new and Layer::layer: the service holds the inner
\* service it was given, value 1.
AlbInit ==
    /\ NoBags
    /\ NoRequest
    /\ checked = None
    /\ upload = None
    /\ alb = [health_check_uri |-> HealthCheckUri, inner |-> 1, services |-> 1,
              futures |-> <<>>, log |-> <<>>]

\* AlbHealthCheckService::poll_ready
AlbPollReady ==
    alb' = [alb EXCEPT !.log = Append(@, AlbEvent("poll_ready", 0, 0, "Ready(Ok)"))]

\* AlbHealthCheckFuture::handler_future, AlbHealthCheckFuture::service_future
HandlerFuture(req) ==
    [inner |-> "Left", req |-> req, state |-> "Pending", svc |-> 0,
     output |-> None]
ServiceFuture(req, service) ==
    [inner |-> "Right", req |-> req, state |-> "NotReady", svc |-> service,
     output |-> None]

\* Mutant of call: every request is forwarded.
AlbCallForwardsAll(uri) ==
    LET req == [id |-> Len(alb.futures) + 1, uri |-> uri]
        clone == alb.services + 1
        service == alb.inner
    IN  alb' = [alb EXCEPT
                  !.inner = clone,
                  !.services = clone,
                  !.futures = Append(@, ServiceFuture(req, service)),
                  !.log = Append(@, AlbEvent("inner.clone", service, req.id, clone))]

\* Mutant of call: the inner service is called at once, without Oneshot.
AlbCallDirect(uri) ==
    LET req == [id |-> Len(alb.futures) + 1, uri |-> uri]
    IN  IF req.uri = alb.health_check_uri
        THEN alb' = [alb EXCEPT
                  !.futures = Append(@, HandlerFuture(req)),
                  !.log = Append(@, AlbEvent("handler", 0, req.id, "future"))]
        ELSE alb' = [alb EXCEPT
                  !.futures = Append(@, [ServiceFuture(req, alb.inner)
                                            EXCEPT !.state = "Called"]),
                  !.log = Append(@, AlbEvent("inner.call", alb.inner, req.id,
                                             "future"))]

\* AlbHealthCheckService::call: the handler is called with the request of
\* the health check; for any other request the inner service is cloned, the
\* clone is left in self.inner and the value that was there goes into a
\* Oneshot with the request.
AlbCall(uri) ==
    LET req == [id |-> Len(alb.futures) + 1, uri |-> uri]
        clone == alb.services + 1
        service == alb.inner
    IN  IF req.uri = alb.health_check_uri
        THEN alb' = [alb EXCEPT
                  !.futures = Append(@, HandlerFuture(req)),
                  !.log = Append(@, AlbEvent("handler", 0, req.id, "future"))]
        ELSE alb' = [alb EXCEPT
                  !.inner = clone,
                  !.services = clone,
                  !.futures = Append(@, ServiceFuture(req, service)),
                  !.log = Append(@, AlbEvent("inner.clone", service, req.id, clone))]

\* Mutant of poll: the output of the handler's future is returned as an
\* error.
AlbPollLeftErr(f) ==
    /\ alb.futures[f].inner = "Left"
    /\ alb.futures[f].state = "Pending"
    /\ alb' = [alb EXCEPT
                 !.futures[f].state = "Done",
                 !.futures[f].output = Some(<<"Err", HandlerResponse(alb.futures[f].req)>>),
                 !.log = Append(@, AlbEvent("handler_future.poll", 0,
                                            alb.futures[f].req.id, "Ready"))]

\* AlbHealthCheckFuture::poll, EitherProj::Left: value.poll(cx).map(Ok),
\* when the handler's future completes.
AlbPollLeft(f) ==
    /\ alb.futures[f].inner = "Left"
    /\ alb.futures[f].state = "Pending"
    /\ alb' = [alb EXCEPT
                 !.futures[f].state = "Done",
                 !.futures[f].output = Some(<<"Ok", HandlerResponse(alb.futures[f].req)>>),
                 !.log = Append(@, AlbEvent("handler_future.poll", 0,
                                            alb.futures[f].req.id, "Ready"))]

\* AlbHealthCheckFuture::poll, EitherProj::Right: value.poll(cx) of the
\* Oneshot that has not yet found its service ready.  It polls the service
\* ready: Pending leaves it as it is, Ready(Err) completes it with the
\* error, and Ready(Ok) makes it call the service with the request.
AlbPollNotReady(f, ready) ==
    LET fut == alb.futures[f]
        polled == AlbEvent("inner.poll_ready", fut.svc, fut.req.id, ready)
    IN  /\ fut.inner = "Right"
        /\ fut.state = "NotReady"
        /\ alb' = CASE ready = "Pending" ->
                         [alb EXCEPT !.log = Append(@, polled)]
                    [] ready = "Ready(Err)" ->
                         [alb EXCEPT
                            !.futures[f].state = "Done",
                            !.futures[f].output = Some(<<"Err", "inner not ready">>),
                            !.log = Append(@, polled)]
                    [] ready = "Ready(Ok)" ->
                         [alb EXCEPT
                            !.futures[f].state = "Called",
                            !.log = Append(Append(@, polled),
                                      AlbEvent("inner.call", fut.svc, fut.req.id,
                                               "future"))]

\* The same, of the Oneshot that has called its service: the future of the
\* inner service completes with r, which is the output.
AlbPollCalled(f, r) ==
    LET fut == alb.futures[f]
    IN  /\ fut.inner = "Right"
        /\ fut.state = "Called"
        /\ alb' = [alb EXCEPT
                     !.futures[f].state = "Done",
                     !.futures[f].output = Some(r),
                     !.log = Append(@, AlbEvent("inner_future.poll", fut.svc,
                                                fut.req.id, r))]

\* The caller makes one more call on the service or on one of its futures.
AlbStep ==
    /\ Len(alb.log) < MaxCalls
    /\ UNCHANGED BagVars
    /\ UNCHANGED RequestVars
    /\ UNCHANGED <<checked, upload>>

AlbNext ==
    \/ AlbStep /\ AlbPollReady
    \/ AlbStep /\ \E uri \in Uris : AlbCall(uri)
    \/ AlbStep /\ \E f \in 1..Len(alb.futures) : AlbPollLeft(f)
    \/ AlbStep /\ \E f \in 1..Len(alb.futures), ready \in PollReadyResults :
                     AlbPollNotReady(f, ready)
    \/ AlbStep /\ \E f \in 1..Len(alb.futures) :
                     \E r \in InnerResults(alb.futures[f].req) : AlbPollCalled(f, r)

AlbSpec == AlbInit /\ [][AlbNext]_vars

\* ---------------------------------------------------------------- uploader
\* upload.rs.  A Builder is configured and built into an Uploader, and
\* upload is called on it with a request whose body has a size hint.
\* upload suspends once, at the await of CreateMultipartUpload.
MEBIBYTE == 1024 * 1024
MIN_PART_SIZE_BYTES == 5 * MEBIBYTE
MAX_PARTS == 10000
DEFAULT_CONCURRENCY == 8

\* TargetPartSize and ConcurrencySetting: Auto, or Explicit(n)
Auto == <<"Auto">>
Explicit(n) == <<"Explicit", n>>

\* A size in bytes of a stream is a u64 and can exceed the 32-bit integers
\* of TLC, so it is written as the pair of its quotient and its
\* remainder by MAX_PARTS: [q |-> 3, r |-> 7] is 3 * MAX_PARTS + 7 bytes.
\* The sizes the builder is given stay small and are plain integers.
SizeOf(n) == [q |-> n \div MAX_PARTS, r |-> n % MAX_PARTS]
SizeLess(a, b) == a.q < b.q \/ (a.q = b.q /\ a.r < b.r)
\* upper_bound / MAX_PARTS, the division of u64
DivMaxParts(size) == size.q
Max(a, b) == IF a >= b THEN a ELSE b

\* The part sizes a caller may ask for, and the sizes a stream may hint at:
\* around the two thresholds, and around MAX_PARTS parts of such a size.
PartSizes == {0, 1, MIN_PART_SIZE_BYTES - 1, MIN_PART_SIZE_BYTES,
              MIN_PART_SIZE_BYTES + 1, 8 * MEBIBYTE, 8 * MEBIBYTE + 1}
StreamSizes ==
    {SizeOf(n) : n \in PartSizes}
      \cup {[q |-> p, r |-> r] : p \in PartSizes \ {0, 1}, r \in {0, 1, MAX_PARTS - 1}}
SizeHints ==
    {h \in [lower : StreamSizes, upper : {None} \cup {Some(s) : s \in StreamSizes}] :
        h.upper # None => ~SizeLess(h.upper[1], h.lower)}

\* Uploader::builder(), Builder::new().  asked is the size the caller last
\* gave to multipart_threshold_part_size, if it gave one.
UploadInit ==
    /\ NoBags
    /\ NoRequest
    /\ checked = None
    /\ alb = None
    /\ upload = [built |-> FALSE,
                 multipart_threshold_part_size |-> Auto,
                 concurrency |-> Auto,
                 asked |-> None,
                 size_hint |-> None, path |-> None, part_size |-> None,
                 sent |-> <<>>, upload_id |-> None, tasks |-> 0,
                 result |-> None]

\* Mutant of Builder::multipart_threshold_part_size: the size is stored as
\* it is given.
MultipartThresholdPartSizeUnrounded(multipart_threshold_part_size) ==
    /\ ~upload.built
    /\ upload' = [upload EXCEPT !.multipart_threshold_part_size =
                                   multipart_threshold_part_size,
                                 !.asked = Some(multipart_threshold_part_size)]

\* Builder::multipart_threshold_part_size
MultipartThresholdPartSize(multipart_threshold_part_size) ==
    /\ ~upload.built
    /\ LET threshold ==
               IF multipart_threshold_part_size[1] = "Explicit"
               THEN Explicit(Max(multipart_threshold_part_size[2],
                                 MIN_PART_SIZE_BYTES))
               ELSE multipart_threshold_part_size
       IN  upload' = [upload EXCEPT !.multipart_threshold_part_size = threshold,
                                    !.asked = Some(multipart_threshold_part_size)]

\* Builder::concurrency
Concurrency(concurrency) ==
    /\ ~upload.built
    /\ upload.concurrency # concurrency
    /\ upload' = [upload EXCEPT !.concurrency = concurrency]

\* Builder::build, From<Builder> for Uploader
Build ==
    /\ ~upload.built
    /\ upload' = [upload EXCEPT !.built = TRUE]

\* Uploader::num_workers, Uploader::mpu_threshold_bytes
NumWorkers(u) ==
    IF u.concurrency = Auto THEN DEFAULT_CONCURRENCY ELSE u.concurrency[2]
MpuThresholdBytes(u) ==
    IF u.multipart_threshold_part_size = Auto
    THEN 8 * MEBIBYTE
    ELSE u.multipart_threshold_part_size[2]

\* What upload returns or ends with.
TodoPanic == <<"panic", "not yet implemented: send request as is">>
UpperBoundSizeHintRequired == <<"Err", "upper_bound_size_hint_required">>
UploadIdPanic == <<"panic", "upload ID present">>
OkHandle == <<"Ok", "handle">>

\* Mutant of upload: a stream without an upper bound is uploaded in parts
\* of the threshold size.
UploadCallUnbounded(size_hint) ==
    /\ upload.built
    /\ upload.size_hint = None
    /\ LET min_mpu_threshold == MpuThresholdBytes(upload)
           part_size ==
               IF size_hint.upper = None THEN min_mpu_threshold
               ELSE Max(min_mpu_threshold, DivMaxParts(size_hint.upper[1]))
       IN  IF SizeLess(size_hint.lower, SizeOf(min_mpu_threshold))
           THEN upload' = [upload EXCEPT !.size_hint = Some(size_hint),
                                         !.path = Some("single"),
                                         !.result = Some(TodoPanic)]
           ELSE upload' = [upload EXCEPT !.size_hint = Some(size_hint),
                                         !.path = Some("multipart"),
                                         !.part_size = Some(part_size),
                                         !.sent = Append(@, "CreateMultipartUpload")]

\* Uploader::upload up to its first suspension or its return: the single
\* request path ends in todo!(); try_start_mpu_upload returns the error of
\* a missing upper bound, or computes the part size and sends
\* CreateMultipartUpload (start_mpu).
UploadCall(size_hint) ==
    /\ upload.built
    /\ upload.size_hint = None
    /\ LET min_mpu_threshold == MpuThresholdBytes(upload)
       IN  IF SizeLess(size_hint.lower, SizeOf(min_mpu_threshold))
           THEN upload' = [upload EXCEPT !.size_hint = Some(size_hint),
                                         !.path = Some("single"),
                                         !.result = Some(TodoPanic)]
           ELSE IF size_hint.upper = None
           THEN upload' = [upload EXCEPT !.size_hint = Some(size_hint),
                                         !.path = Some("multipart"),
                                         !.result = Some(UpperBoundSizeHintRequired)]
           ELSE LET upper_bound == size_hint.upper[1]
                    part_size == Max(MpuThresholdBytes(upload),
                                     DivMaxParts(upper_bound))
                IN  upload' = [upload EXCEPT !.size_hint = Some(size_hint),
                                             !.path = Some("multipart"),
                                             !.part_size = Some(part_size),
                                             !.sent = Append(@, "CreateMultipartUpload")]

\* The rest of try_start_mpu_upload and of upload, when CreateMultipartUpload
\* has answered: its error is returned; else the upload id is set (a
\* response without one panics at expect), one worker per num_workers is
\* spawned and the handle is returned.
StartMpuResponses == {<<"Ok", Some("id-1")>>, <<"Ok", None>>, <<"Err", "service error">>}
StartMpuReturns(resp) ==
    /\ upload.built
    /\ upload.sent # <<>>
    /\ upload.result = None
    /\ upload' =
         IF resp[1] = "Err"
         THEN [upload EXCEPT !.result = Some(resp)]
         ELSE IF resp[2] = None
         THEN [upload EXCEPT !.result = Some(UploadIdPanic)]
         ELSE [upload EXCEPT !.upload_id = resp[2],
                             !.tasks = NumWorkers(upload),
                             !.result = Some(OkHandle)]

\* The caller does one more thing with the builder or the uploader.
UploadStep ==
    /\ UNCHANGED BagVars
    /\ UNCHANGED RequestVars
    /\ UNCHANGED <<checked, alb>>

UploadNext ==
    \/ UploadStep /\ \E tps \in {Auto} \cup {Explicit(p) : p \in PartSizes} :
                        MultipartThresholdPartSize(tps)
    \/ UploadStep /\ \E c \in {Auto, Explicit(2)} : Concurrency(c)
    \/ UploadStep /\ Build
    \/ UploadStep /\ \E h \in SizeHints : UploadCall(h)
    \/ UploadStep /\ \E resp \in StartMpuResponses : StartMpuReturns(resp)

UploadSpec == UploadInit /\ [][UploadNext]_vars

\* ------------------------------------------ response checksum interceptor
\* http_response_checksum.rs.  One request: the caller of the interceptor
\* runs its hooks and the hooks of other interceptors on one context and one
\* config bag.  The config bag is the one of aws_smithy_types, of which the
\* interceptor uses Layer::new, Layer::store_put, ConfigBag::push_layer and
\* ConfigBag::load.

\* The values of context.input(), and the closures that
\* self.validation_enabled can be: any Fn(&Input) -> bool.
Inputs == {"input1", "input2"}
Predicates == [Inputs -> BOOLEAN]

\* struct ResponseChecksumInterceptorState { validation_enabled: bool }
ResponseChecksumInterceptorState(validation_enabled) ==
    [validation_enabled |-> validation_enabled]

\* The ResponseChecksumValidation the user may have set on the SdkConfig.
\* The enum is matched with a wildcard arm (line 102): "Unknown" is a value
\* that is neither of the two the code names.
Preferences == {"WhenSupported", "WhenRequired", "Unknown"}

\* The body of a response as the server sent it.
SdkBody == <<"SdkBody">>

\* The responses the request may be answered with: a body, and no checksum
\* header or the header of crc32 holding any of the values.  The lists the
\* interceptor may have been built with as response_algorithms.
Responses ==
    {[headers |-> h, body |-> SdkBody] :
        h \in {m \in HeaderMaps : DOMAIN m \subseteq {HeaderName("crc32")}}}
InterceptorAlgorithms == {<<>>, <<"CRC32C", "crc32">>}

\* wrap_body_with_checksum_validator: the body inside a ChecksumBody
WrapBodyWithChecksumValidator(body, checksum_algorithm, precalculated_checksum) ==
    <<"ChecksumBody", body, checksum_algorithm, precalculated_checksum>>

\* Layer::new(name)
LayerNew(name) == [name |-> name, props |-> EmptyProps]

\* Layer::store_put of a type whose Storer is StoreReplace
StorePut(layer, T, value) == [layer EXCEPT !.props = PropsInsert(@, T, Set(value))]

\* ConfigBag::push_layer: the layer becomes the newest layer of the bag
PushLayer(c, layer) == Append(c, layer)

\* ConfigBag::load of a type whose Storer is StoreReplace: the value of the
\* newest layer that has one
RECURSIVE CfgLoad(_, _)
CfgLoad(c, T) ==
    IF c = <<>> THEN None
    ELSE IF PropsGet(c[Len(c)].props, T) # None
         THEN Some(PropsGet(c[Len(c)].props, T)[1][2])
         ELSE CfgLoad(SubSeq(c, 1, Len(c) - 1), T)

\* Result<(), BoxError> of a hook, and the panic of Option::expect
Ok == <<"Ok">>
ExpectPanic == <<"panic", "set in read_before_serialization">>

\* One entry of the history of the request.
Hook(name, result, state) ==
    [hook |-> name, result |-> result, input |-> context.input, state |-> state,
     out |-> <<>>]

Ran(name) == \E i \in 1..Len(hooks) : hooks[i].hook = name
Aborted == \E i \in 1..Len(hooks) : hooks[i].result # Ok

\* A request starts: the interceptor was built with some closure, the
\* context holds some input, and the config bag holds the layer of the
\* SdkConfig, with or without a ResponseChecksumValidation.
RequestInit ==
    /\ NoBags
    /\ NoComponents
    /\ \E ve \in Predicates, ra \in InterceptorAlgorithms :
          interceptor = [validation_enabled |-> ve, response_algorithms |-> ra]
    /\ \E i \in Inputs, r \in Responses : context = [input |-> i, response |-> r]
    /\ \E layer \in {LayerNew("SdkConfig")}
                      \cup {StorePut(LayerNew("SdkConfig"),
                                     "ResponseChecksumValidation", p) :
                               p \in Preferences} :
          cfg = <<layer>>
    /\ hooks = <<>>

\* Mutant of modify_before_serialization: the layer is built and dropped.
ModifyBeforeSerializationNoPush ==
    /\ ~Ran("modify_before_serialization")
    /\ hooks' = Append(hooks, Hook("modify_before_serialization", Ok, None))
    /\ UNCHANGED <<interceptor, context, cfg>>

\* ResponseChecksumInterceptor::modify_before_serialization, which the
\* caller runs once per request
ModifyBeforeSerialization ==
    /\ ~Ran("modify_before_serialization")
    /\ LET validation_enabled == interceptor.validation_enabled[context.input]
           layer == StorePut(LayerNew("ResponseChecksumInterceptor"),
                             "ResponseChecksumInterceptorState",
                             ResponseChecksumInterceptorState(validation_enabled))
       IN  cfg' = PushLayer(cfg, layer)
    /\ hooks' = Append(hooks, Hook("modify_before_serialization", Ok, None))
    /\ UNCHANGED <<interceptor, context>>

\* Mutant of the match: only WhenSupported enables validation.
ValidationEnabledWhenNamed(flag, response_checksum_validation) ==
    IF ~flag
    THEN CASE response_checksum_validation = "WhenSupported" -> TRUE
           [] OTHER -> FALSE
    ELSE TRUE

\* The match of lines 99-106: is validation enabled, given the flag of the
\* state and the preference of the SdkConfig?
ValidationEnabled(flag, response_checksum_validation) ==
    IF ~flag
    THEN CASE response_checksum_validation = "WhenRequired" -> FALSE
           [] OTHER -> TRUE
    ELSE TRUE

\* ResponseChecksumInterceptor::modify_before_deserialization: the load of
\* the state or the panic of expect (lines 87-89), the preference, absent
\* counting as WhenSupported (lines 92-94), and the body wrapped when
\* validation is enabled and the headers hold a checksum (lines 108-129).
\* out is what the hook prints.
ModifyBeforeDeserialization ==
    LET state == CfgLoad(cfg, "ResponseChecksumInterceptorState")
        preference == CfgLoad(cfg, "ResponseChecksumValidation")
        response_checksum_validation ==
            IF preference = None THEN "WhenSupported" ELSE preference[1]
        validation_enabled ==
            ValidationEnabled(state[1].validation_enabled,
                              response_checksum_validation)
        maybe_checksum_headers ==
            CheckHeadersForPrecalculatedChecksum(context.response.headers,
                                                 interceptor.response_algorithms)
        entry == Hook("modify_before_deserialization", Ok, state)
    IN  IF state = None
        THEN /\ hooks' = Append(hooks,
                    [entry EXCEPT !.result = ExpectPanic,
                                  !.out = <<"INSIDE RESPONSE CHECKSUM INTERCEPTOR">>])
             /\ UNCHANGED <<interceptor, context, cfg>>
        ELSE IF ~validation_enabled
        THEN /\ hooks' = Append(hooks,
                    [entry EXCEPT !.out = <<"INSIDE RESPONSE CHECKSUM INTERCEPTOR">>])
             /\ UNCHANGED <<interceptor, context, cfg>>
        ELSE IF maybe_checksum_headers = None
        THEN /\ hooks' = Append(hooks,
                    [entry EXCEPT !.out = <<"INSIDE RESPONSE CHECKSUM INTERCEPTOR",
                                            "INSIDE VALIDATION ENABLED">>])
             /\ UNCHANGED <<interceptor, context, cfg>>
        ELSE /\ hooks' = Append(hooks,
                    [entry EXCEPT !.out = <<"INSIDE RESPONSE CHECKSUM INTERCEPTOR",
                                            "INSIDE VALIDATION ENABLED",
                                            "WRAPPING BODY">>])
             /\ context' = [context EXCEPT !.response.body =
                                WrapBodyWithChecksumValidator(
                                    @, maybe_checksum_headers[1][1],
                                    maybe_checksum_headers[1][2])]
             /\ UNCHANGED <<interceptor, cfg>>

\* Another interceptor changes the input through the context it is given.
ModifyInput(i) ==
    /\ i # context.input
    /\ context' = [context EXCEPT !.input = i]
    /\ hooks' = Append(hooks, Hook("input_mut", Ok, None))
    /\ UNCHANGED <<interceptor, cfg>>

\* Another interceptor pushes a layer of its own on the config bag.
PushOther ==
    /\ cfg' = PushLayer(cfg, StorePut(LayerNew("Other"), "OtherState", TRUE))
    /\ hooks' = Append(hooks, Hook("push_layer", Ok, None))
    /\ UNCHANGED <<interceptor, context>>

\* The request goes on: a hook that panics ends it.
Running ==
    /\ Len(hooks) < MaxCalls
    /\ ~Aborted
    /\ UNCHANGED BagVars
    /\ UNCHANGED ComponentVars

RequestNext ==
    \/ Running /\ ModifyBeforeSerialization
    \/ Running /\ ModifyBeforeDeserialization
    \/ Running /\ \E i \in Inputs : ModifyInput(i)
    \/ Running /\ PushOther

RequestSpec == RequestInit /\ [][RequestNext]_vars

\* --------------------------------------------------------- model sanity
\* The owners of the Arc of f: the handles the program holds and the bags
\* whose tail it is.
Owners(f) ==
    handles[f] + Cardinality({c \in BagIds : st[c] \in {"mut", "frozen"}
                                             /\ bags[c].tail = f})

TypeOK ==
    /\ nbags \in 0..MaxCalls
    /\ calls \in 0..MaxCalls
    /\ nbags <= calls
    /\ \A b \in BagIds :
        /\ st[b] \in {"none", "mut", "frozen", "dead"}
        /\ bags[b].tail \in BagIds \cup {NoBag}
        /\ DOMAIN bags[b].props \subseteq Keys \cup ConfigTypes
        /\ st[b] = "frozen" <=> rc[b] > 0
        /\ rc[b] = Owners(b)

\* ------------------------------------------------- vocabulary of the claims
Live == {b \in BagIds : st[b] \in {"mut", "frozen"}}

\* The layers of bag b of heap H, head (newest) first.
RECURSIVE NewestFirst(_, _)
NewestFirst(H, b) ==
    IF H[b].tail = NoBag THEN <<b>> ELSE <<b>> \o NewestFirst(H, H[b].tail)

Reverse(s) == [i \in 1..Len(s) |-> s[Len(s) + 1 - i]]
OldestFirst(H, b) == Reverse(NewestFirst(H, b))

HasEntry(H, i, K) == K \in DOMAIN H[i].props
HasSet(H, i, K) == HasEntry(H, i, K) /\ IsSet(H[i].props[K])
HasUnset(H, i, K) == HasEntry(H, i, K) /\ ~IsSet(H[i].props[K])

\* What the head-to-oldest walk answers for K on bag b: the entry of the
\* first layer that has one.
Answer(H, b, K) ==
    LET ch == NewestFirst(H, b)
        deciders == {i \in 1..Len(ch) : HasEntry(H, ch[i], K)}
    IN  IF deciders = {} THEN None
        ELSE LET d == CHOOSE i \in deciders : \A j \in deciders : i <= j
                 e == H[ch[d]].props[K]
             IN  IF IsSet(e) THEN Some(e[2]) ELSE None

\* A FrozenConfigBag of f exists: the program holds one, or f is a tail.
Shared(f) == handles[f] > 0 \/ \E c \in Live : bags[c].tail = f

\* The last step was a call of op.
Did(op) == last.op = op

\* C1: get(T) is the answer of the newest layer of the chain that has an
\* entry for T (its value if Set, absence if ExplicitlyUnset), layers with no
\* entry being skipped; absence when no layer has an entry.
C1_GetNewestEntryWins ==
    \A b \in Live : \A K \in Keys : Get(bags, b, K) = Answer(bags, b, K)

\* A bag whose head has no entry for Prop1, whose tail sets it to 1 and whose
\* tail's tail sets it to 2: get skips the head and answers 1.
C1_Witness ==
    \E b \in Live :
        /\ ~HasEntry(bags, b, "Prop1")
        /\ bags[b].tail # NoBag
        /\ HasSet(bags, bags[b].tail, "Prop1")
        /\ bags[bags[b].tail].tail # NoBag
        /\ Get(bags, bags[bags[b].tail].tail, "Prop1") = Some(2)
        /\ Get(bags, b, "Prop1") = Some(1)

\* C2: whatever call is made, every frozen bag that has a handle before and
\* after it answers get and load as before, for every type.
C2_FrozenIsolated ==
    [][\A f \in BagIds :
          (Shared(f) /\ Shared(f)') =>
              /\ \A K \in Keys : Get(bags', f, K) = Get(bags, f, K)
              /\ \A T \in StorableTypes : Load(bags', f, T) = Load(bags, f, T)]_vars

\* A bag derived from a frozen bag the program still holds has just been
\* written to, and now answers differently from the frozen bag.
C2_Witness ==
    /\ last.op \in {"put", "unset", "store", "store_or_unset"}
    /\ bags[last.bag].tail # NoBag
    /\ handles[bags[last.bag].tail] > 0
    /\ \E K \in Keys :
          Get(bags, last.bag, K) # Get(bags, bags[last.bag].tail, K)

\* C3: a bag the program can write to (never frozen, or recovered by
\* try_modify) has no frozen handle and is the tail of no other bag.
C3_ExclusiveMutation ==
    \A b \in BagIds :
        st[b] = "mut" =>
            /\ handles[b] = 0
            /\ \A c \in Live : bags[c].tail # b

\* A bag has been recovered by try_modify: the program can write to its head
\* while it still holds a handle of the bag's frozen tail.
C3_Witness ==
    /\ Did("try_modify")
    /\ last.ok
    /\ st[last.bag] = "mut"
    /\ bags[last.bag].tail # NoBag
    /\ handles[bags[last.bag].tail] > 0

\* C4: try_modify succeeds exactly when the handle is the only owner of the
\* Arc, and the bag it returns is the frozen bag: same head, same tail, same
\* get and load for every type.
C4_TryModifyGate ==
    [][Did("try_modify")' =>
          LET f == last'.bag
          IN  /\ last'.ok <=> Owners(f) = 1
              /\ last'.ok =>
                    /\ st'[f] = "mut"
                    /\ bags'[f] = bags[f]
                    /\ \A K \in Keys : Get(bags', f, K) = Get(bags, f, K)
                    /\ \A T \in StorableTypes :
                          Load(bags', f, T) = Load(bags, f, T)]_vars

\* try_modify has succeeded on a bag with a tail and a value in its head.
C4_Witness ==
    /\ Did("try_modify")
    /\ last.ok
    /\ bags[last.bag].tail # NoBag
    /\ Get(bags, last.bag, "Prop1") # None

\* C5: with two clones of a frozen bag, try_modify on one of them returns
\* None, changes no bag, and the other clone answers as before.
C5_TryModifySharedFails ==
    [][(Did("try_modify")' /\ handles[last'.bag] >= 2) =>
          LET f == last'.bag
          IN  /\ ~last'.ok
              /\ bags' = bags
              /\ st' = st
              /\ handles'[f] = handles[f] - 1
              /\ \A K \in Keys : Get(bags', f, K) = Get(bags, f, K)
              /\ \A T \in StorableTypes : Load(bags', f, T) = Load(bags, f, T)]_vars

\* try_modify has failed on one of two clones; the other is still held and
\* still answers.
C5_Witness ==
    /\ Did("try_modify")
    /\ ~last.ok
    /\ handles[last.bag] = 1
    /\ rc[last.bag] = 1
    /\ Get(bags, last.bag, "Prop1") # None

\* The values of T stored in layer i that no store_or_unset(None) has reset.
Kept(i, T) == SubSeq(stored[i][T], cleared[i][T] + 1, Len(stored[i][T]))

\* The concatenation of f[i] for the layers i of the sequence ch.
RECURSIVE Concat(_, _)
Concat(ch, f) == IF ch = <<>> THEN <<>> ELSE f[Head(ch)] \o Concat(Tail(ch), f)

\* C6 as stated: for an append type, load is every value ever stored for the
\* type in the chain, oldest layer first, in call order within a layer.
C6_LoadEveryValueEverStored ==
    \A b \in Live :
        Load(bags, b, "Interceptor") =
            Concat(OldestFirst(bags, b), [i \in BagIds |-> stored[i]["Interceptor"]])

\* C6: for an append type, load is the values stored for the type in the
\* chain and not reset since by store_or_unset(None) on their layer, oldest
\* layer first, in call order within a layer.
C6_LoadAppendOrder ==
    \A b \in Live :
        Load(bags, b, "Interceptor") =
            Concat(OldestFirst(bags, b), [i \in BagIds |-> Kept(i, "Interceptor")])

\* Two different values stored in one layer and a third in the layer added
\* on top of it: load gives the three, older layer first.
C6_Witness ==
    \E b \in Live :
        /\ bags[b].tail # NoBag
        /\ Len(stored[bags[b].tail]["Interceptor"]) = 2
        /\ stored[bags[b].tail]["Interceptor"][1] # stored[bags[b].tail]["Interceptor"][2]
        /\ Len(stored[b]["Interceptor"]) = 1
        /\ Load(bags, b, "Interceptor") =
              stored[bags[b].tail]["Interceptor"] \o stored[b]["Interceptor"]

\* The newest layer of the chain of b that holds a value of T, 0 if none.
NewestHolding(b, T) ==
    LET ch == NewestFirst(bags, b)
        holding == {i \in 1..Len(ch) : HasSet(bags, ch[i], VecOf(T))}
    IN  IF holding = {} THEN NoBag
        ELSE ch[CHOOSE i \in holding : \A j \in holding : i <= j]

\* C7: for a replace type, load is the last value stored in the newest layer
\* of the chain that holds a value of the type, and nothing else.
C7_LoadReplaceLatest ==
    \A b \in Live :
        LET n == NewestHolding(b, "Region")
        IN  Load(bags, b, "Region") =
                IF n = NoBag THEN None
                ELSE LET seq == bags[n].props[VecOf("Region")][2]
                     IN  Some(seq[Len(seq)])

\* X stored in an older layer, Y # X in a newer one: load gives Y.
C7_Witness ==
    \E b \in Live :
        /\ bags[b].tail # NoBag
        /\ Kept(bags[b].tail, "Region") = <<1>>
        /\ Kept(b, "Region") = <<2>>
        /\ Load(bags, b, "Region") = Some(2)

\* The call of the last step unset K on bag b: unset(K), or with_fn with the
\* closure layer_c, which unsets Prop1.
Unsetting(e, b, K) ==
    /\ e.bag = b
    /\ \/ e.op = "unset" /\ e.key = K
       \/ e.op = "with_fn" /\ e.key = "layer_c" /\ K = "Prop1"

\* C8: after unset(K) on the head of b, get(K) on b is absent whatever the
\* older layers hold; no other bag is changed, so the frozen predecessor
\* answers as before for every type, and answers absence for a type set in
\* the new layer and in no layer of its own.
C8_UnsetShadows ==
    [][\A b \in BagIds : \A K \in PointTypes :
          Unsetting(last', b, K) =>
              /\ Get(bags', b, K) = None
              /\ \A i \in BagIds \ {b} : bags'[i] = bags[i]
              /\ LET f == bags'[b].tail
                 IN  f # NoBag =>
                       \A J \in PointTypes :
                          /\ Get(bags', f, J) = Get(bags, f, J)
                          /\ (\A i \in 1..Len(NewestFirst(bags', f)) :
                                ~HasSet(bags', NewestFirst(bags', f)[i], J))
                             => Get(bags', f, J) = None]_vars

\* layer_c has been added to a frozen bag the program holds: the new bag has
\* no Prop1 and has Prop2, the frozen bag has Prop1 and no Prop2.
C8_Witness ==
    /\ Did("with_fn")
    /\ last.key = "layer_c"
    /\ bags[last.bag].tail # NoBag
    /\ handles[bags[last.bag].tail] > 0
    /\ Get(bags, last.bag, "Prop1") = None
    /\ Get(bags, bags[last.bag].tail, "Prop1") # None
    /\ Get(bags, last.bag, "Prop2") # None
    /\ Get(bags, bags[last.bag].tail, "Prop2") = None

\* C9: put(T, v) on bag b changes the entry of T in the head of b and
\* nothing else: not another entry of the head, not the head's name or tail,
\* not another bag.
C9_PutFrame ==
    [][Did("put")' =>
          LET b == last'.bag
              T == last'.key
          IN  /\ HasSet(bags', b, T)
              /\ \A K \in Keys \ {T} :
                    PropsGet(bags'[b].props, K) = PropsGet(bags[b].props, K)
              /\ bags'[b].name = bags[b].name
              /\ bags'[b].tail = bags[b].tail
              /\ \A i \in BagIds \ {b} : bags'[i] = bags[i]]_vars

\* put on a bag that has a tail and another entry in its head.
C9_Witness ==
    /\ Did("put")
    /\ bags[last.bag].tail # NoBag
    /\ \E K \in Keys \ {last.key} : HasEntry(bags, last.bag, K)

\* The provenance record of layer i for type K.
RecordOf(i, K) ==
    IF ~HasEntry(bags, i, K) THEN SourceInherit(bags[i].name)
    ELSE IF HasSet(bags, i, K)
         THEN SourceSet(bags[i].name, DebugFmt(bags[i].props[K][2]))
         ELSE SourceUnset(bags[i].name)

TrailIs(b, K, ch) ==
    LET trail == SourcedGet(bags, b, K, <<>>).trail
    IN  /\ Len(trail) = Len(ch)
        /\ \A i \in 1..Len(ch) : trail[i] = RecordOf(ch[i], K)

\* C10 as stated: the trail of sourced_get holds the records head first, the
\* newest layer's record first and the oldest layer's last.
C10_TrailNewestFirst ==
    \A b \in Live : \A K \in PointTypes : TrailIs(b, K, NewestFirst(bags, b))

\* C10: the trail of sourced_get holds the records in the order the calls
\* return, the oldest layer's record first and the head's last; the item is
\* the answer of the newest layer that has an entry.
C10_TrailOldestFirst ==
    \A b \in Live : \A K \in PointTypes :
        /\ TrailIs(b, K, OldestFirst(bags, b))
        /\ HasUnset(bags, b, K) => SourcedGet(bags, b, K, <<>>).item = None

\* Prop1 set in layer a, untouched in layer b, unset in layer c: the trail
\* is [Inherit(base), Set(a, 1), Inherit(b), Unset(c)] and the item is None.
C10_Witness ==
    \E b \in Live :
        /\ SourcedGet(bags, b, "Prop1", <<>>).trail =
              <<SourceInherit("base"), SourceSet("a", "1"),
                SourceInherit("b"), SourceUnset("c")>>
        /\ SourcedGet(bags, b, "Prop1", <<>>).item = None

\* C11: the answers the readers of a frozen bag were given for one type, by
\* any clone and at any point of any interleaving with the writers of the
\* bags derived from it, are all the same answer.
C11_ReadersAgree ==
    \A f \in BagIds : \A q \in Questions :
        \A i, j \in 1..Len(seen[f][q]) : seen[f][q][i] = seen[f][q][j]

\* Two clones exist; the bag was read, a layer that sets Prop1 otherwise was
\* derived from it, and it has just been read again.
C11_Witness ==
    /\ Did("get")
    /\ handles[last.bag] >= 2
    /\ Len(seen[last.bag]["Prop1"]) >= 2
    /\ \E c \in Live :
          /\ bags[c].tail = last.bag
          /\ Get(bags, c, "Prop1") # Get(bags, last.bag, "Prop1")
          /\ seen[last.bag]["Prop1"][1] = Get(bags, last.bag, "Prop1")

\* C12: load called on the bag that with(conf) has just returned gives back
\* conf, whatever the values of its fields and whatever the bag it was
\* layered on.
C12_RoundTrip ==
    [][(Did("load_config")' /\ Did("with") /\ last'.bag = last.bag) =>
          last'.ok = Some(last.key)]_vars

\* base().with(conf) with a = TRUE and b = "hello!", as in
\* test::persist_trait, then load, which gave the same value back.
C12_Witness ==
    /\ Did("load_config")
    /\ last.ok = Some([a |-> TRUE, b |-> "hello!"])
    /\ bags[last.bag].name = "my_config"
    /\ bags[last.bag].tail # NoBag
    /\ bags[bags[last.bag].tail] = Base

\* C13: load of the structured value from a bag on which the lookup of A or
\* of B answers absence (no layer has an entry, or the newest entry is an
\* unset) ends in the panic, which is neither None nor Some of a value;
\* otherwise it gives the value whose fields are the two answers.
C13_MissingFieldPanics ==
    Did("load_config") =>
        LET b == last.bag
            absent == {T \in ConfigTypes : Answer(bags, b, T) = None}
        IN  /\ absent # {} =>
                  /\ last.ok = Panic
                  /\ last.ok # None
                  /\ \A conf \in MyConfigs : last.ok # Some(conf)
            /\ absent = {} =>
                  last.ok = Some([a |-> Answer(bags, b, "A")[1],
                                  b |-> Answer(bags, b, "B")[1]])

\* load has panicked on a bag whose older layer sets both fields and whose
\* head unsets A.
C13_Witness ==
    /\ Did("load_config")
    /\ last.ok = Panic
    /\ HasUnset(bags, last.bag, "A")
    /\ bags[last.bag].tail # NoBag
    /\ HasSet(bags, bags[last.bag].tail, "A")
    /\ HasSet(bags, bags[last.bag].tail, "B")

\* load has panicked on a bag no layer of which mentions the fields.
C13_WitnessNeverSet ==
    /\ Did("load_config")
    /\ last.ok = Panic
    /\ \A T \in ConfigTypes :
          \A i \in 1..Len(NewestFirst(bags, last.bag)) :
              ~HasEntry(bags, NewestFirst(bags, last.bag)[i], T)

\* What the layers below the head of b give load for T.
LoadBelow(H, b, T) == IF H[b].tail = NoBag THEN <<>> ELSE Load(H, H[b].tail, T)

\* C14: store_or_unset(T, None) leaves the head with an unset accumulator,
\* so that load is what the layers below the head give; a store(T, v) on a
\* head whose accumulator is unset makes load what the layers below give
\* merged with v alone; store_or_unset(T, Some(v)) leaves the bag as
\* store(T, v) does.
C14_StoreOrUnset ==
    [][LET b == last'.bag
           T == last'.key
           v == stored'[b][T][Len(stored'[b][T])]
       IN  /\ Did("store_or_unset")' =>
                 IF Len(stored'[b][T]) = Len(stored[b][T])
                 THEN /\ HasUnset(bags', b, VecOf(T))
                      /\ Load(bags', b, T) = LoadBelow(bags, b, T)
                 ELSE bags'[b] = Store(bags[b], T, v)
           /\ (Did("store")' /\ HasUnset(bags, b, VecOf(T))) =>
                 Load(bags', b, T) = MergeAll(T, LoadBelow(bags, b, T), <<v>>)]_vars

\* Interceptor 1 stored in a layer and a value stored in the layer above it,
\* then store_or_unset(None) and store(2) on that layer: load is [1, 2].
C14_Witness ==
    /\ Did("store")
    /\ last.key = "Interceptor"
    /\ Len(stored[last.bag]["Interceptor"]) = 2
    /\ cleared[last.bag]["Interceptor"] = 1
    /\ bags[last.bag].tail # NoBag
    /\ Load(bags, bags[last.bag].tail, "Interceptor") = <<1>>
    /\ Load(bags, last.bag, "Interceptor") = <<1, 2>>

\* No layer of the chain of b has an entry for K.
Unmentioned(b, K) ==
    LET ch == NewestFirst(bags, b)
    IN  \A i \in 1..Len(ch) : ~HasEntry(bags, ch[i], K)

\* C15: on a bag base() has just returned, and on every bag no layer of
\* which has an entry for the type, get answers None and load answers the
\* default accumulator (None for a replace type, the empty Vec for an append
\* type, both written <<>> here); neither is a panic.
C15_AbsenceIsNormal ==
    /\ Did("base") =>
          /\ \A K \in Keys : Get(bags, last.bag, K) = None
          /\ \A T \in StorableTypes : Load(bags, last.bag, T) = <<>>
    /\ \A b \in Live :
          /\ \A K \in Keys :
                Unmentioned(b, K) => Get(bags, b, K) = None /\ Get(bags, b, K) # Panic
          /\ \A T \in StorableTypes :
                Unmentioned(b, VecOf(T)) => Load(bags, b, T) = <<>>

\* A bag of two layers or more that has a value for Prop1, and no entry in
\* any layer for Prop2 and for the sequences of Region and Interceptor.
C15_Witness ==
    \E b \in Live :
        /\ bags[b].tail # NoBag
        /\ Get(bags, b, "Prop1") # None
        /\ Unmentioned(b, "Prop2")
        /\ Unmentioned(b, VecOf("Region"))
        /\ Unmentioned(b, VecOf("Interceptor"))
        /\ Get(bags, b, "Prop2") = None
        /\ Load(bags, b, "Region") = None
        /\ Load(bags, b, "Interceptor") = <<>>

\* C16: a get or load made while a store call has removed the sequence and
\* not yet put it back is answered as before the call or as after it, never
\* from the head in between; and the call leaves the head as store does.
C16_StoreAtomic ==
    [][inflight # None =>
          LET c == inflight[1]
              before == [bags EXCEPT ![c.bag] = c.before]
              after  == [bags EXCEPT ![c.bag] = Store(c.before, c.T, c.t)]
          IN  /\ (Did("get")' \/ Did("load")') =>
                    LET f == last'.bag
                        q == last'.key
                    IN  seen'[f][q][Len(seen'[f][q])] \in
                            {Asked(before, f, q), Asked(after, f, q)}
              /\ Did("store")' => bags'[c.bag] = Store(c.before, c.T, c.t)]_vars

\* A thread is inside store on a bag whose head held a sequence, now
\* removed, and another thread has just loaded from the bag's frozen tail.
C16_Witness ==
    /\ inflight # None
    /\ Did("load")
    /\ last.bag = bags[inflight[1].bag].tail
    /\ inflight[1].removed # None
    /\ ~HasEntry(bags, inflight[1].bag, VecOf("Interceptor"))
    /\ Load(bags, inflight[1].bag, "Interceptor") #
          Load([bags EXCEPT ![inflight[1].bag] = inflight[1].before],
               inflight[1].bag, "Interceptor")

\* A trail that already holds a record when sourced_get is called.
CallerTrail == <<SourceInherit("caller")>>

\* C17: sourced_get called with a trail that holds records leaves them in
\* front and appends one record for each layer of the chain, the layers
\* older than the one that answers included: a layer's record bears the
\* layer's name, and is a Set with the text of the value iff the layer has a
\* Set entry, an Unset iff it has an ExplicitlyUnset entry and an Inherit iff
\* it has no entry.
C17_OneRecordPerLayer ==
    \A b \in Live : \A K \in PointTypes :
        LET ch == OldestFirst(bags, b)
            n == Len(CallerTrail)
            trail == SourcedGet(bags, b, K, CallerTrail).trail
        IN  /\ Len(trail) = n + Len(ch)
            /\ SubSeq(trail, 1, n) = CallerTrail
            /\ \A i \in 1..Len(ch) :
                  LET rec == trail[n + i]
                  IN  /\ rec[2] = bags[ch[i]].name
                      /\ rec[1] = "Set" <=> HasSet(bags, ch[i], K)
                      /\ rec[1] = "Unset" <=> HasUnset(bags, ch[i], K)
                      /\ rec[1] = "Inherit" <=> ~HasEntry(bags, ch[i], K)
                      /\ rec[1] = "Set" =>
                            rec[3] = DebugFmt(bags[ch[i]].props[K][2])

\* Prop1 is 2 in the base layer, 1 in layer a and untouched in layer b: the
\* layers below the one that answers have their records too.
C17_Witness ==
    \E b \in Live :
        SourcedGet(bags, b, "Prop1", CallerTrail).trail =
            <<SourceInherit("caller"), SourceSet("base", "2"),
              SourceSet("a", "1"), SourceInherit("b")>>

\* The layers below the head of bag b of heap H, newest first.
Below(H, b) == Tail(NewestFirst(H, b))

\* C18: whatever call is made, a bag that exists before and after it keeps
\* the layers below its head, the same layers in the same order and with the
\* same contents; the one call that gives a bag layers below its head is
\* add_bag_layer, on a bag that had none.  No layer occurs twice in a chain,
\* so no layer is a predecessor of itself.
C18_ChainFixed ==
    [][\A b \in BagIds :
          (st[b] \in {"mut", "frozen"} /\ st'[b] \in {"mut", "frozen"}) =>
              LET old == Below(bags, b)
                  new == NewestFirst(bags', b)
              IN  /\ \/ Tail(new) = old
                     \/ old = <<>> /\ Did("add_bag_layer")' /\ last'.bag = b
                  /\ \A i \in 1..Len(old) : bags'[old[i]] = bags[old[i]]
                  /\ \A i, j \in 1..Len(new) : new[i] = new[j] => i = j
                  /\ Head(new) = b]_vars

\* put on the head of a chain of three layers whose middle layer the
\* program holds frozen.
C18_Witness ==
    /\ Did("put")
    /\ Len(NewestFirst(bags, last.bag)) >= 3
    /\ handles[bags[last.bag].tail] > 0

\* add_bag_layer has put a frozen chain of two layers below a bag.
C18_WitnessAddBagLayer ==
    /\ Did("add_bag_layer")
    /\ last.ok
    /\ Len(NewestFirst(bags, last.bag)) >= 3

\* The entries the head of bag b of heap H has for type K.
EntriesOf(H, b, K) == {k \in DOMAIN H[b].props : k = K}

\* C19: after put(T, v) the head has one entry for T and it is Set(v), after
\* unset(T) it has one entry for T and it is ExplicitlyUnset, whatever entry
\* the head had for T before the call.
C19_LastWriteWins ==
    [][LET b == last'.bag
           T == last'.key
       IN  /\ Did("put")' =>
                 /\ Cardinality(EntriesOf(bags', b, T)) = 1
                 /\ PropsGet(bags'[b].props, T) = Some(Set(last'.arg[1]))
           /\ Did("unset")' =>
                 /\ Cardinality(EntriesOf(bags', b, T)) = 1
                 /\ PropsGet(bags'[b].props, T) = Some(ExplicitlyUnset)]_vars

\* put(Prop1, 2) has been called on a head that also sets Prop2, as the
\* layer built by the closure layer_c (put Prop2, unset Prop1) does, above
\* a layer in which Prop1 is 1: the head's entry is Set(2).
C19_Witness ==
    /\ Did("put")
    /\ last.key = "Prop1"
    /\ last.arg = Some(2)
    /\ bags[last.bag].props["Prop1"] = Set(2)
    /\ HasSet(bags, last.bag, "Prop2")
    /\ bags[last.bag].tail # NoBag
    /\ Get(bags, bags[last.bag].tail, "Prop1") = Some(1)

\* unset(Prop1) has been called on a head that a put had given a value of
\* Prop2: the head's entry for Prop1 is ExplicitlyUnset.
C19_WitnessUnset ==
    /\ Did("unset")
    /\ last.key = "Prop1"
    /\ HasUnset(bags, last.bag, "Prop1")
    /\ HasSet(bags, last.bag, "Prop2")

\* C20: every call of modify_before_deserialization made after the call of
\* modify_before_serialization returns Ok and goes on with the state whose
\* flag is what the interceptor's closure gave for the input the context
\* held when modify_before_serialization ran; a call made before it panics,
\* and goes on with no state.
C20_StateRoundTrip ==
    \A i \in 1..Len(hooks) :
        hooks[i].hook = "modify_before_deserialization" =>
            LET ser == {j \in 1..(i - 1) :
                          hooks[j].hook = "modify_before_serialization"}
            IN  IF ser = {}
                THEN hooks[i].result = ExpectPanic /\ hooks[i].state = None
                ELSE \A j \in ser :
                        /\ hooks[i].result = Ok
                        /\ hooks[i].state =
                              Some(ResponseChecksumInterceptorState(
                                     interceptor.validation_enabled[hooks[j].input]))

\* modify_before_serialization ran on an input for which the closure gives
\* TRUE, another interceptor pushed a layer and changed the input to one for
\* which it gives FALSE, and modify_before_deserialization loaded TRUE.
C20_Witness ==
    /\ Len(hooks) >= 4
    /\ hooks[Len(hooks)].hook = "modify_before_deserialization"
    /\ hooks[Len(hooks)].state = Some(ResponseChecksumInterceptorState(TRUE))
    /\ ~interceptor.validation_enabled[context.input]
    /\ Ran("push_layer")
    /\ cfg[Len(cfg)].name = "Other"

\* modify_before_deserialization was called first, and panicked.
C20_WitnessAbort ==
    /\ Len(hooks) = 1
    /\ hooks[1].hook = "modify_before_deserialization"
    /\ hooks[1].result = ExpectPanic

\* The hook the last step of the request ran, and what it printed.
LastHook == hooks[Len(hooks)]
Wrote(e, line) == \E k \in 1..Len(e.out) : e.out[k] = line
Deserialized ==
    /\ Len(hooks') = Len(hooks) + 1
    /\ LastHook'.hook = "modify_before_deserialization"
    /\ LastHook'.result = Ok

\* The preference the user has set on the SdkConfig, the oldest layer of
\* the config bag of the request, if any.
UserPreference == PropsGet(cfg[1].props, "ResponseChecksumValidation")

\* C21: a call of modify_before_deserialization that finds the state goes
\* into validation exactly when the flag of the state is true or the
\* preference of the SdkConfig is not WhenRequired, an absent preference
\* counting as WhenSupported and an unrecognized one enabling validation;
\* when it does not, the body of the response is the one it was.
C21_ValidationEnabled ==
    [][Deserialized =>
          LET flag == LastHook'.state[1].validation_enabled
              enabled == Wrote(LastHook', "INSIDE VALIDATION ENABLED")
          IN  /\ enabled <=>
                    \/ flag
                    \/ UserPreference = None
                    \/ /\ UserPreference # None
                       /\ UserPreference[1][2] # "WhenRequired"
              /\ ~flag /\ UserPreference = None => enabled
              /\ /\ ~flag
                 /\ UserPreference # None
                 /\ UserPreference[1][2] \notin {"WhenRequired", "WhenSupported"}
                 => enabled
              /\ ~enabled => context'.response = context.response]_vars

\* The flag is false and the preference is one the code does not name: the
\* hook went into validation and wrapped the body.
C21_Witness ==
    /\ hooks # <<>>
    /\ LastHook.hook = "modify_before_deserialization"
    /\ LastHook.result = Ok
    /\ ~LastHook.state[1].validation_enabled
    /\ UserPreference # None
    /\ UserPreference[1][2] = "Unknown"
    /\ Wrote(LastHook, "WRAPPING BODY")
    /\ context.response.body =
          WrapBodyWithChecksumValidator(SdkBody, "crc32",
              Base64Decode(context.response.headers[HeaderName("crc32")])[2])

\* The flag is false and the preference is WhenRequired: the hook left the
\* body alone although the headers hold a checksum of a listed algorithm.
C21_WitnessDisabled ==
    /\ hooks # <<>>
    /\ LastHook.hook = "modify_before_deserialization"
    /\ LastHook.result = Ok
    /\ ~LastHook.state[1].validation_enabled
    /\ UserPreference # None
    /\ UserPreference[1][2] = "WhenRequired"
    /\ ~Wrote(LastHook, "INSIDE VALIDATION ENABLED")
    /\ CheckHeadersForPrecalculatedChecksum(context.response.headers,
                                            interceptor.response_algorithms) # None
    /\ context.response.body = SdkBody

\* A text that ends with one dash followed by one or more digits: after
\* some dash there are only digits, and at least one, and no other dash
\* stands in the run of digits and dashes that ends the text.
PartLevelShape(s) ==
    \E d \in 1..(Len(s) - 1) :
        /\ s[d] = "-"
        /\ \A j \in (d + 1)..Len(s) : IsAsciiDigit(s[j])
        /\ \A k \in 1..(d - 1) :
              s[k] = "-" =>
                  \E m \in (k + 1)..(d - 1) : ~IsAsciiDigit(s[m]) /\ s[m] # "-"

\* The places, in the priority order, of the algorithms that the list names
\* (in any case) and whose header the response holds.
Candidates(headers, response_algorithms) ==
    {i \in 1..Len(CHECKSUM_ALGORITHMS_IN_PRIORITY_ORDER) :
        /\ \E k \in 1..Len(response_algorithms) :
              EqIgnoreAsciiCase(response_algorithms[k],
                                CHECKSUM_ALGORITHMS_IN_PRIORITY_ORDER[i])
        /\ HeaderName(CHECKSUM_ALGORITHMS_IN_PRIORITY_ORDER[i]) \in DOMAIN headers}
First(S) == CHOOSE i \in S : \A j \in S : i <= j

\* C22: check_headers_for_precalculated_checksum returns None when no header
\* of a listed algorithm is set; otherwise the header of the listed
\* algorithm that comes first in the priority order decides alone: None
\* when its value is a part-level checksum or is not base64, else that
\* algorithm with the decoded value, whatever the other headers hold.
C22_FirstHeaderDecides ==
    (checked # None /\ checked.fn = "check_headers_for_precalculated_checksum") =>
        LET headers == checked.arg[1]
            response_algorithms == checked.arg[2]
            C == Candidates(headers, response_algorithms)
            algo == CHECKSUM_ALGORITHMS_IN_PRIORITY_ORDER[First(C)]
            value == headers[HeaderName(algo)]
        IN  /\ C = {} => checked.result = None
            /\ C # {} =>
                  IF PartLevelShape(value) \/ Base64Decode(value)[1] = "Err"
                  THEN checked.result = None
                  ELSE checked.result = Some(<<algo, Base64Decode(value)[2]>>)

\* sha256 is listed before crc32c and in another case, both headers are
\* set, the one of crc32c holds a part-level checksum and the one of sha256
\* a value that decodes: the result is None.
C22_Witness ==
    /\ checked # None
    /\ checked.fn = "check_headers_for_precalculated_checksum"
    /\ checked.arg[2] = <<"SHA256", "CRC32C">>
    /\ DOMAIN checked.arg[1] = {HeaderName("crc32c"), HeaderName("sha256")}
    /\ checked.arg[1][HeaderName("crc32c")] = <<"A", "1", "-", "1">>
    /\ checked.arg[1][HeaderName("sha256")] = <<"A", "1", "A", "1">>
    /\ checked.result = None

\* Both headers decode: the result is the algorithm first in the priority
\* order, crc32, although the list names Sha1 first.
C22_WitnessPriority ==
    /\ checked # None
    /\ checked.fn = "check_headers_for_precalculated_checksum"
    /\ checked.arg[2] = <<"Sha1", "crc32">>
    /\ DOMAIN checked.arg[1] = {HeaderName("crc32"), HeaderName("sha1")}
    /\ checked.arg[1][HeaderName("crc32")] = <<"A", "1", "=", "=">>
    /\ checked.arg[1][HeaderName("sha1")] = <<"A", "1", "A", "1">>
    /\ checked.result = Some(<<"crc32", <<"bytes", <<"A", "1">>>>>>)

\* C23: is_part_level_checksum returns true exactly for the texts that end
\* with a single dash followed by one or more digits, and false for every
\* other text.
C23_PartLevelExact ==
    (checked # None /\ checked.fn = "is_part_level_checksum") =>
        (checked.result <=> PartLevelShape(checked.arg[1]))

\* The entries of the history of the service that are about request r.
AlbEvents(r) == {k \in 1..Len(alb.log) : alb.log[k].req = r}
AlbDid(r, ops) == \E k \in AlbEvents(r) : alb.log[k].op \in ops
InnerOps == {"inner.clone", "inner.poll_ready", "inner.call", "inner_future.poll"}

\* C24: a request whose URI equals health_check_uri goes to the handler and
\* never to the inner service, and its future completes with Ok of the
\* handler's response only; any other request goes to the inner service
\* and never to the handler, and its future completes with what the inner
\* service returned, Ok or Err, unchanged.
C24_RoutedByUri ==
    alb # None =>
      \A f \in 1..Len(alb.futures) :
        LET fut == alb.futures[f]
            r == fut.req.id
        IN  IF fut.req.uri = HealthCheckUri
            THEN /\ AlbDid(r, {"handler"})
                 /\ ~AlbDid(r, InnerOps)
                 /\ fut.output # None =>
                       fut.output = Some(<<"Ok", HandlerResponse(fut.req)>>)
            ELSE /\ AlbDid(r, {"inner.clone"})
                 /\ ~AlbDid(r, {"handler", "handler_future.poll"})
                 /\ fut.output # None =>
                       \E k \in AlbEvents(r) :
                          \/ /\ alb.log[k].op = "inner_future.poll"
                             /\ fut.output = Some(alb.log[k].result)
                          \/ /\ alb.log[k].op = "inner.poll_ready"
                             /\ alb.log[k].result = "Ready(Err)"
                             /\ fut.output[1][1] = "Err"

\* A health check has completed with Ok, a request for the same path with
\* a query has been forwarded, and its future has completed with the error
\* the inner service answered when polled ready.
C24_Witness ==
    /\ alb # None
    /\ \E f, g \in 1..Len(alb.futures) :
          /\ alb.futures[f].req.uri = "/ping"
          /\ alb.futures[f].output =
                Some(<<"Ok", HandlerResponse(alb.futures[f].req)>>)
          /\ alb.futures[g].req.uri = "/ping?probe=1"
          /\ alb.futures[g].output = Some(<<"Err", "inner not ready">>)

\* A forwarded request has completed with the response of the inner
\* service.
C24_WitnessInner ==
    /\ alb # None
    /\ \E g \in 1..Len(alb.futures) :
          /\ alb.futures[g].req.uri = "/orders"
          /\ alb.futures[g].output # None
          /\ alb.futures[g].output[1] \in InnerResults(alb.futures[g].req)
          /\ alb.futures[g].output[1][1] = "Ok"

\* C25: poll_ready of the service answers Ready(Ok) and polls no inner
\* service; a value of the inner service is called only after that same
\* value has answered Ready(Ok) to the poll_ready of the Oneshot that holds
\* it, for the request it is then called with; and the future of a health
\* check can complete whatever the inner service has answered.
C25_ReadyBeforeCall ==
    alb # None =>
      /\ \A k \in 1..Len(alb.log) :
            /\ alb.log[k].op = "poll_ready" =>
                  alb.log[k].result = "Ready(Ok)" /\ alb.log[k].svc = 0
            /\ alb.log[k].op = "inner.call" =>
                  \E j \in 1..(k - 1) :
                      /\ alb.log[j].op = "inner.poll_ready"
                      /\ alb.log[j].svc = alb.log[k].svc
                      /\ alb.log[j].req = alb.log[k].req
                      /\ alb.log[j].result = "Ready(Ok)"
      /\ \A f \in 1..Len(alb.futures) :
            (alb.futures[f].inner = "Left" /\ alb.futures[f].state = "Pending"
                /\ Len(alb.log) < MaxCalls)
               => ENABLED (AlbStep /\ AlbPollLeft(f))

\* The caller has polled the service ready, a forwarded request has found
\* its inner service ready and been passed to it, and a health check has
\* been answered although the inner service it was called beside had
\* answered Pending.
C25_Witness ==
    /\ alb # None
    /\ \E k \in 1..Len(alb.log) : alb.log[k].op = "poll_ready"
    /\ \E k \in 1..Len(alb.log) : alb.log[k].op = "inner.call"
    /\ \E f \in 1..Len(alb.futures) :
          /\ alb.futures[f].inner = "Left"
          /\ alb.futures[f].output # None

\* A health check is answered while the only inner service polled so far
\* has answered Pending.
C25_WitnessNotReady ==
    /\ alb # None
    /\ \E k \in 1..Len(alb.log) :
          alb.log[k].op = "inner.poll_ready" /\ alb.log[k].result = "Pending"
    /\ ~\E k \in 1..Len(alb.log) :
          alb.log[k].op = "inner.poll_ready" /\ alb.log[k].result = "Ready(Ok)"
    /\ alb.log[Len(alb.log)].op = "handler_future.poll"

\* C26: the builder holds an Explicit size below 5 MiB as 5 MiB, an
\* Explicit size of 5 MiB or more as given and Auto as Auto; so the
\* multipart threshold of a built Uploader is at least 5 MiB, and is 8 MiB
\* for Auto.
C26_ThresholdRounded ==
    upload # None =>
      /\ upload.asked # None =>
            LET given == upload.asked[1]
            IN  IF given[1] = "Explicit"
                THEN IF given[2] < 5 * 1024 * 1024
                     THEN upload.multipart_threshold_part_size =
                              Explicit(5 * 1024 * 1024)
                     ELSE upload.multipart_threshold_part_size = given
                ELSE upload.multipart_threshold_part_size = Auto
      /\ upload.built =>
            /\ MpuThresholdBytes(upload) >= 5 * 1024 * 1024
            /\ upload.multipart_threshold_part_size = Auto =>
                  MpuThresholdBytes(upload) = 8 * 1024 * 1024

\* An Uploader built after the caller asked for parts of one byte: its
\* threshold is 5 MiB.
C26_Witness ==
    /\ upload # None
    /\ upload.built
    /\ upload.asked = Some(Explicit(1))
    /\ MpuThresholdBytes(upload) = 5242880

\* Does content of the size fit in MAX_PARTS parts of part_size bytes?
FitsInMaxParts(size, part_size) ==
    size.q < part_size \/ (size.q = part_size /\ size.r = 0)

\* C27: the part size chosen for a multipart upload is never below the
\* multipart threshold, and content of the upper-bound size of the stream
\* fits in at most MAX_PARTS parts of that size.
C27_PartSizeFits ==
    (upload # None /\ upload.part_size # None) =>
       /\ upload.part_size[1] >= MpuThresholdBytes(upload)
       /\ FitsInMaxParts(upload.size_hint[1].upper[1], upload.part_size[1])

C28_WitnessStarted ==
    /\ upload # None
    /\ upload.path = Some("multipart")
    /\ upload.upload_id # None
    /\ upload.tasks = 8
    /\ upload.result = Some(OkHandle)

\* C29: a try_modify that fails takes the handle it was called on all the
\* same: the program holds one handle less and the Arc has one owner less.
\* So when the owners were two handles and nothing else, the handle that
\* is left is the only owner and try_modify on it can be called and gives
\* the bag back; and when the handle was the program's only one, no handle
\* is left on which add_layer could be called.
C29_FailedTryModifyConsumes ==
    [][\A f \in BagIds :
        (Did("try_modify")' /\ ~last'.ok /\ last'.bag = f) =>
              /\ handles'[f] = handles[f] - 1
              /\ Owners(f)' = Owners(f) - 1
              /\ st'[f] = "frozen"
              /\ (handles[f] = 2 /\ Owners(f) = 2) =>
                    /\ handles'[f] = 1
                    /\ Owners(f)' = 1
                    /\ calls' < MaxCalls =>
                          (ENABLED (Called /\ TryModifyCall(f) /\ last'.ok
                                      /\ st'[f] = "mut"))'
              /\ handles[f] = 1 =>
                    /\ handles'[f] = 0
                    /\ (~ENABLED (Called /\ AddLayerCall(f, LayerNames[nbags])))'
                    /\ (~ENABLED (Called /\ TryModifyCall(f)))']_vars

\* try_modify has just failed on one of two clones of a frozen bag from
\* which no bag is derived: one handle is left, and it is the only owner.
C29_Witness ==
    /\ Did("try_modify")
    /\ ~last.ok
    /\ handles[last.bag] = 1
    /\ Owners(last.bag) = 1
    /\ st[last.bag] = "frozen"

\* try_modify has just failed on the only handle of a frozen bag that a
\* derived bag keeps alive: the program has no handle of it left.
C29_WitnessNoHandle ==
    /\ Did("try_modify")
    /\ ~last.ok
    /\ handles[last.bag] = 0
    /\ st[last.bag] = "frozen"

\* C30: as long as a bag derived from a frozen bag F is alive, owned by the
\* program or frozen in its turn, F stays frozen and its Arc has an owner
\* more than the handles the program holds; so try_modify on a handle of F
\* can be called and cannot give the bag back, and every layer that lies
\* below another layer is frozen, never one the program can mutate.
C30_DerivedBagOwns ==
    \A c \in Live :
        LET F == bags[c].tail
            ch == NewestFirst(bags, c)
        IN  /\ F # NoBag =>
                  /\ st[F] = "frozen"
                  /\ rc[F] > handles[F]
                  /\ (handles[F] > 0 /\ calls < MaxCalls) =>
                        /\ ENABLED (Called /\ TryModifyCall(F))
                        /\ ~ENABLED (Called /\ TryModifyCall(F) /\ last'.ok)
            /\ \A i \in 2..Len(ch) : st[ch[i]] = "frozen"

\* A bag was derived from F by add_layer and frozen in its turn, and
\* try_modify on the handle of F has just failed.
C30_Witness ==
    /\ Did("try_modify")
    /\ ~last.ok
    /\ \E c \in Live : bags[c].tail = last.bag /\ st[c] = "frozen"

\* Bags derived by with and by add_bag_layer from a frozen bag of which the
\* program holds a handle.
C30_WitnessWith ==
    /\ Did("with")
    /\ handles[bags[last.bag].tail] > 0

C30_WitnessAddBagLayer ==
    /\ Did("add_bag_layer")
    /\ last.ok
    /\ handles[bags[last.bag].tail] > 0

====
